---- MODULE Spec2Model ----
(***************************************************************************)
(* A model of log-analyzer-cli's core: the log parser (LogFileReader,      *)
(* LogFormatDetector, ErrorExtractor, LogParser) and the source matcher    *)
(* (CodeMatcher).                                                          *)
(*                                                                         *)
(* Log lines are drawn from a fixed table of concrete lines; every regular *)
(* expression of the source is modelled by its outcome on those lines.     *)
(* Sequences are 1-based here and 0-based in the source: an index i of the *)
(* source is i + 1 in the model.                                           *)
(***************************************************************************)
EXTENDS Integers, Sequences, FiniteSets, TLC

\* ------------------------------------------------------------------ bounds

\* Longest file whose lines are drawn freely from every line of LineText.
MaxLen == 3
\* Longest file whose lines are drawn freely from the stack-trace lines.
MaxStackLen == 5
\* Longest file of JSON lines (at least streamDetectThreshold lines).
MaxLong == 11
\* Largest number of frame lines that follow the error line of a long trace.
MaxFrames == 51
\* Largest number of complete lines one 'data' event delivers.
MaxBatch == 4
\* Largest number of chunks of one stream that complete no line.
MaxSilentChunks == 1
\* Longest file, besides the probe files, whose parse is followed to its end
\* under fairness.
MaxLiveLen == 2

\* --------------------------------------------------------- program constants

\* LogFormatDetector.detectFormat: Math.min(lines.length, 50)
sampleLimit == 50
\* ErrorExtractor.extractStackTrace: const maxLookAhead = 50
maxLookAhead == 50
\* LogParser.parseLogFileStream: entries.length + lines.length >= 10
streamDetectThreshold == 10
\* ErrorExtractor.createErrorEntry: extractContextLines(allEntries, currentIndex, 3)
contextSize == 3
\* LogFileReader constructor: maxFileSize: options.maxFileSize || 100 (MB)
defaultMaxFileSize == 100
\* LogFileReader.validateFile: stats.size / (1024 * 1024)
BytesPerMB == 1048576

\* ------------------------------------------------------------------- state

VARIABLES
  \* LogParser.parseLogFile / parseLogFileStream on one file
  fileLines,      \* the file as content.split(/\r?\n/) gives it: the last
                  \* element is what follows the last line terminator
  mode,           \* "none", "file" (parseLogFile) or "stream" (parseLogFileStream)
  pc,             \* "start", "stream", "done" (resolved), "failed" (rejected);
                  \* "idle" when no parse is under way
  pos,            \* lines the reader has handed to the batch callback
  lineNumber,     \* parseLogFileStream's lineNumber
  formatDetected, \* parseLogFileStream's formatDetected
  format, entries, errorEntries, parseErrors, totalLines,
  rejection,      \* why the returned promise was rejected: "none", "line"
                  \* when processing one line's content threw, "empty" when
                  \* readFile returned no line, the check of
                  \* validateFile that failed: "missing", "notFile", "tooLarge",
                  \* or "stream" when the stream emitted 'error'
  path,           \* what the file system says of filePath: exists, isFile, size
  parseOptions,   \* LogParseOptions: maxFileSize, contextLines (0: not given)
  opened,         \* fs.readFile or fs.createReadStream was called on filePath
  silentChunks,   \* 'data' events that called no batch callback
  finalBatches,   \* calls of the batch callback with isComplete true
  progress,       \* the last call of onProgress: processed, and the line
                  \* numbers of the errors passed; NoProgress before any call
  \* CodeMatcher.findCodeLocations on one stack trace
  stackTrace,     \* the StackTraceEntry list given
  options,        \* CodeSearchOptions: maxResults (0: not given), fuzzyMatch
  projectIndex,   \* [used |-> this.projectIndex !== null, files |-> its files]
  mpc,            \* "search", "done"; "idle" when no search is under way
  traceIdx,       \* stack frames the loop has processed
  locations,      \* findCodeLocations' locations
  result,         \* the CodeLocationResult returned
  \* LogFileReader.readFileStream on one stream of characters
  chunks,         \* the file content as the stream will deliver it, cut in chunks
  chunkIdx,       \* chunks the 'data' handler has received
  buffer,         \* readFileStream's buffer
  batches,        \* the calls of the batch callback so far: lines, isComplete
  rpc,            \* "reading", "ended" (resolved), "failed" (rejected); "idle"
                  \* when no such read is under way
  \* LogParser.analyzeContextRelations on one list of error entries
  corrErrors,     \* the errorEntries given, then with their metadata
  cpc,            \* "correlate", "done"; "idle" when no such call is under way
  \* LogFormatDetector's static functions, called on given lines
  samples,        \* the two line lists detectFormat is called on
  detected,       \* what the last call on each returned; "none" before it
  parsed,         \* the last call of parseLogEntry: line, format, entry
  \* CodeLocator: initialize, refreshIndex and locateErrorSources on one
  \* list of error entries; its CodeMatcher's index is projectIndex above
  projectRoot,    \* this.projectRoot: "null" or the resolved root
  locatorIndex,   \* this.projectIndex, as [used, files]
  lastScan,       \* how the last scanProject ended: "none", "ok", "failed"
  indexings,      \* calls of initialize so far, those of refreshIndex included
  errorsGiven,    \* the errorEntries locateErrorSources is called on
  located,        \* the calls of locateErrorSources so far: what each met
                  \* and returned
  \* CodeLocator.autoDetectProjectRoot from one directory
  dirs,           \* what each directory holds, from the file system root
                  \* (first) down to the directory the search starts in (last)
  currentPath,    \* findProjectRoot's currentPath, as an index of dirs
  fpc,            \* "walk", "found" (findProjectRoot returned), "done"
                  \* (autoDetectProjectRoot returned); "idle" otherwise
  detectedRoot,   \* what findProjectRoot returned: an index of dirs, 0 for null
  autoRoot        \* what autoDetectProjectRoot returned, likewise

parserVars == <<fileLines, mode, pc, pos, lineNumber, formatDetected,
                format, entries, errorEntries, parseErrors, totalLines, rejection,
                path, parseOptions, opened, silentChunks, finalBatches, progress>>
matcherVars == <<stackTrace, options, projectIndex, mpc, traceIdx, locations, result>>
readerVars == <<chunks, chunkIdx, buffer, batches, rpc>>
correlatorVars == <<corrErrors, cpc>>
detectorVars == <<samples, detected, parsed>>
locatorVars == <<projectRoot, locatorIndex, lastScan, indexings, errorsGiven, located>>
rootVars == <<dirs, currentPath, fpc, detectedRoot, autoRoot>>
vars == <<parserVars, matcherVars, readerVars, correlatorVars, detectorVars,
          locatorVars, rootVars>>

Min(a, b) == IF a < b THEN a ELSE b
Max(a, b) == IF a > b THEN a ELSE b

\* ------------------------------------------------------------ the log lines

\* The concrete lines the model's files are made of.
LineText ==
  [ empty       |-> "",
    blank       |-> "   ",
    info        |-> "2024-01-01 10:00:00 INFO service started",
    infoTimeout |-> "2024-01-01 10:00:01 INFO connection timeout",
    error       |-> "2024-01-01 10:00:02 ERROR NullPointerException in handler",
    frame       |-> "    at com.example.Service.handle(Service.java:42)",
    prose       |-> "... 3 more",
    failedPlain |-> "request failed",
    jsonOk      |-> "{\"level\":\"ERROR\",\"message\":\"x\"}",
    jsonNum     |-> "{\"level\":\"INFO\",\"message\":5}",
    jsonNumErr  |-> "{\"level\":\"ERROR\",\"message\":5}",
    spring      |-> "2024-01-01 10:00:00.123  ERROR 1 --- [main] a.B : boom",
    springInfo  |-> "2024-01-01 10:00:00.123  ERROR 1 --- [main] a.B : cannot read info file",
    log4jLine   |-> "2024-01-01 10:00:00,123 [ERROR] com.example.Dao - boom",
    log4jDebug  |-> "2024-01-01 10:00:00,123 [ERROR] com.example.Dao - debug mode failed",
    access      |-> "127.0.0.1 - frank [10/Oct/2000:13:55:36 -0700] \"GET / HTTP/1.0\" 200 2326",
    commonOnly  |-> "127.0.0.1 - frank [10/Oct/2000:13:55:36 -0700] startup" ]

\* The lines of the files parsed, and the lines of the dialects.
Lines ==
  {"empty", "blank", "info", "infoTimeout", "error", "frame", "prose", "failedPlain",
   "jsonOk", "jsonNum", "jsonNumErr"}
SpringLines == {"spring", "springInfo"}
Log4jLines == {"log4jLine", "log4jDebug"}
StackLines == {"info", "error", "frame", "prose"}
JsonLines == {"jsonOk", "jsonNum", "jsonNumErr"}

\* !line.trim()
IsBlank(line) == line \in {"empty", "blank"}

\* LEVEL_PATTERNS tried in the order TRACE, DEBUG, INFO, WARN, ERROR, FATAL on
\* the text given; "NONE" is undefined.
extractLogLevel(line) ==
  CASE line = "log4jDebug"                                       -> "DEBUG"
    [] line \in {"info", "infoTimeout", "jsonNum", "springInfo"}  -> "INFO"
    [] line \in {"error", "jsonOk", "jsonNumErr", "spring", "log4jLine"} -> "ERROR"
    [] OTHER                                                     -> "NONE"

\* ERROR_INDICATORS.some(pattern => pattern.test(text)) on the whole line.
LineMatchesErrorIndicator(line) ==
  line \in {"infoTimeout", "error", "failedPlain", "jsonOk", "jsonNumErr"}
             \cup SpringLines \cup Log4jLines

\* FORMAT_PATTERNS[format].test(line.trim()); no pattern is declared for text.
\* A line the combined pattern matches is matched by the common pattern too.
MatchesFormat(line, fmt) ==
  CASE fmt = "json"     -> line \in JsonLines
    [] fmt = "spring"   -> line \in SpringLines
    [] fmt = "log4j"    -> line \in Log4jLines
    [] fmt = "common"   -> line \in {"access", "commonOnly"}
    [] fmt = "combined" -> line = "access"
    [] OTHER            -> FALSE

\* JSON.parse(line) returns an object (it throws on every other line).
JsonParses(line) == line \in JsonLines

\* extractLogLevel(jsonObj.level || jsonObj.severity || '')
JsonLevel(line) ==
  CASE line \in {"jsonOk", "jsonNumErr"} -> "ERROR"
    [] line = "jsonNum"                  -> "INFO"
    [] OTHER                             -> "NONE"

\* jsonObj.message || jsonObj.msg || line: a string ("x") or the number 5.
JsonMessage(line) == IF line = "jsonOk" THEN "json:string" ELSE "json:number"

\* ------------------------------------------------------- LogFormatDetector

FormatOrder == <<"json", "spring", "log4j", "common", "combined", "text">>

\* A score that counts every line given, the lines after the sample too.
formatScoreAllLines(lines, fmt) ==
  Cardinality({i \in 1..Len(lines) :
                 ~IsBlank(lines[i]) /\ MatchesFormat(lines[i], fmt)})

formatScore(lines, fmt) ==
  Cardinality({i \in 1..Min(Len(lines), sampleLimit) :
                 ~IsBlank(lines[i]) /\ MatchesFormat(lines[i], fmt)})

RECURSIVE bestFormat(_, _, _, _)

\* A search in which a later format takes over from an earlier one it ties.
RECURSIVE bestFormatLastWins(_, _, _, _)
bestFormatLastWins(lines, i, best, maxScore) ==
  IF i > Len(FormatOrder) THEN best
  ELSE LET score == formatScore(lines, FormatOrder[i])
       IN IF score > 0 /\ score >= maxScore
            THEN bestFormatLastWins(lines, i + 1, FormatOrder[i], score)
            ELSE bestFormatLastWins(lines, i + 1, best, maxScore)

bestFormat(lines, i, best, maxScore) ==
  IF i > Len(FormatOrder) THEN best
  ELSE LET score == formatScore(lines, FormatOrder[i])
       IN IF score > maxScore
            THEN bestFormat(lines, i + 1, FormatOrder[i], score)
            ELSE bestFormat(lines, i + 1, best, maxScore)

detectFormat(lines) == bestFormat(lines, 1, "text", 0)

\* extractTimestamp for the formats but JSON: match[1] of the pattern of the
\* format on the line; "NONE" is undefined.  The Common and Combined pattern
\* takes the first bracketed text, the default one a date and time with or
\* without ".mmm".
extractTimestamp(line, fmt) ==
  CASE fmt = "spring" /\ line \in SpringLines -> "2024-01-01 10:00:00.123"
    [] fmt = "log4j" /\ line \in Log4jLines   -> "2024-01-01 10:00:00,123"
    [] fmt \in {"common", "combined"} /\ line \in {"access", "commonOnly"}
                                              -> "10/Oct/2000:13:55:36 -0700"
    [] fmt \in {"common", "combined"} /\ line \in SpringLines -> "main"
    [] fmt \in {"common", "combined"} /\ line \in Log4jLines  -> "ERROR"
    [] fmt = "text" /\ line = "info"          -> "2024-01-01 10:00:00"
    [] fmt = "text" /\ line = "infoTimeout"   -> "2024-01-01 10:00:01"
    [] fmt = "text" /\ line = "error"         -> "2024-01-01 10:00:02"
    [] fmt = "text" /\ line \in SpringLines   -> "2024-01-01 10:00:00.123"
    [] fmt = "text" /\ line \in Log4jLines    -> "2024-01-01 10:00:00"
    [] OTHER                                  -> "NONE"

\* The non-blank lines that line.trim() shortens.
TrimShortens(line) == line = "frame"

\* message.trim() || line, message being match[1] of the Spring and Log4j
\* message patterns, the text after the logger prefix, or the line when the
\* format has no such pattern or its pattern does not match: "line" is the
\* line's own text, "line:trimmed" that text without its leading blanks.
messageAfterPrefix(line, fmt) ==
  CASE fmt = "spring" /\ line = "spring"        -> "boom"
    [] fmt = "spring" /\ line = "springInfo"    -> "cannot read info file"
    [] fmt = "log4j" /\ line = "log4jLine"      -> "boom"
    [] fmt = "log4j" /\ line = "log4jDebug"     -> "debug mode failed"
    [] TrimShortens(line)                       -> "line:trimmed"
    [] OTHER                                    -> "line"

\* A LogEntry.  message is "line" (the line's own text), the text after the
\* logger prefix, or what the JSON object carried: "json:string" or
\* "json:number".  The JSON objects of the model carry no timestamp, and the
\* catch of JSON.parse sets the level only.
parseLogEntry(line, n, fmt) ==
  IF fmt = "json"
    THEN IF JsonParses(line)
      THEN [lineNumber |-> n, rawLine |-> line, timestamp |-> "NONE",
            level |-> JsonLevel(line), message |-> JsonMessage(line)]
      ELSE [lineNumber |-> n, rawLine |-> line, timestamp |-> "NONE",
            level |-> extractLogLevel(line), message |-> "line"]
    ELSE [lineNumber |-> n, rawLine |-> line,
          timestamp |-> extractTimestamp(line, fmt),
          level |-> extractLogLevel(line), message |-> messageAfterPrefix(line, fmt)]

\* The entry both parse loops push when processing a line has thrown.
RawEntry(line, n) ==
  [lineNumber |-> n, rawLine |-> line, timestamp |-> "NONE",
   level |-> "NONE", message |-> "line"]

\* ---------------------------------------------------------- ErrorExtractor

MessageIsString(entry) == entry.message # "json:number"

\* ERROR_INDICATORS on entry.message.toLowerCase(); the JSON message "x"
\* matches none.
MessageMatchesErrorIndicator(entry) ==
  entry.message \in {"line", "line:trimmed"} /\ LineMatchesErrorIndicator(entry.rawLine)

\* isErrorLine throws a TypeError at entry.message.toLowerCase() when the level
\* did not decide and the message is not a string.
isErrorLineThrows(entry) ==
  entry.level \notin {"ERROR", "FATAL"} /\ ~MessageIsString(entry)

isErrorLine(entry) ==
  \/ entry.level \in {"ERROR", "FATAL"}
  \/ MessageMatchesErrorIndicator(entry)

\* timestampPatterns.some(pattern => pattern.test(line))
isNewLogEntry(line) ==
  line \in {"info", "infoTimeout", "error"} \cup SpringLines \cup Log4jLines

\* parseStackTraceLine(line) # null; the frame keeps the raw line and, to tell
\* frames apart, the line number of the entry it was read from.
IsFrameLine(line) == line = "frame"
parseStackTraceLine(entry) == [rawLine |-> entry.rawLine, at |-> entry.lineNumber]

\* One past the last index the scan loop visits:
\*   for (i = startIndex + 1; i < Math.min(entries.length, startIndex + maxLookAhead); i++)
scanLimit(ents, currentIndex) ==
  Min(Len(ents), (currentIndex - 1) + maxLookAhead)

\* A scan that does not end at a non-frame line after the first frame.
RECURSIVE scanStackTraceNoStop(_, _, _, _)
scanStackTraceNoStop(ents, i, limit, started) ==
  IF i > limit THEN <<>>
  ELSE LET line == ents[i].rawLine
       IN IF IsBlank(line) THEN scanStackTraceNoStop(ents, i + 1, limit, started)
          ELSE IF isNewLogEntry(line) THEN <<>>
          ELSE IF IsFrameLine(line)
            THEN <<parseStackTraceLine(ents[i])>>
                   \o scanStackTraceNoStop(ents, i + 1, limit, TRUE)
          ELSE scanStackTraceNoStop(ents, i + 1, limit, started)

\* The scan loop from index i on; started is stackTrace.length > 0, and the
\* result is what the loop pushes from i on.
RECURSIVE scanStackTrace(_, _, _, _)
scanStackTrace(ents, i, limit, started) ==
  IF i > limit THEN <<>>
  ELSE LET line == ents[i].rawLine
       IN IF IsBlank(line) THEN scanStackTrace(ents, i + 1, limit, started)
          ELSE IF isNewLogEntry(line) THEN <<>>
          ELSE IF IsFrameLine(line)
            THEN <<parseStackTraceLine(ents[i])>>
                   \o scanStackTrace(ents, i + 1, limit, TRUE)
          ELSE IF started THEN <<>>
          ELSE scanStackTrace(ents, i + 1, limit, FALSE)

extractStackTrace(ents, currentIndex) ==
  scanStackTrace(ents, currentIndex + 1, scanLimit(ents, currentIndex), FALSE)

\* entries.slice(max(0, i - contextSize), min(entries.length, i + contextSize + 1)),
\* kept as the line numbers of the entries in the slice.
extractContextLines(ents, currentIndex) ==
  [j \in 1..(Min(Len(ents), currentIndex + contextSize)
             - Max(1, currentIndex - contextSize) + 1) |->
     ents[Max(1, currentIndex - contextSize) + j - 1].lineNumber]

NoMetadata == [set |-> FALSE, num |-> 0, den |-> 0]

\* extractErrorType(entry.message) calls message.match: a TypeError when the
\* message is not a string.
createErrorEntryThrows(entry) == ~MessageIsString(entry)

\* level: entry.level as (ERROR | FATAL) || ERROR
createErrorEntry(entry, allEntries, currentIndex) ==
  [lineNumber   |-> entry.lineNumber,
   rawLine      |-> entry.rawLine,
   message      |-> entry.message,
   level        |-> IF entry.level # "NONE" THEN entry.level ELSE "ERROR",
   stackTrace   |-> extractStackTrace(allEntries, currentIndex),
   contextLines |-> extractContextLines(allEntries, currentIndex),
   metadata     |-> NoMetadata]

RECURSIVE extractErrorEntriesFrom(_, _)
extractErrorEntriesFrom(ents, i) ==
  IF i > Len(ents) THEN <<>>
  ELSE IF isErrorLine(ents[i])
    THEN <<createErrorEntry(ents[i], ents, i)>>
           \o extractErrorEntriesFrom(ents, i + 1)
    ELSE extractErrorEntriesFrom(ents, i + 1)

extractErrorEntries(ents) == extractErrorEntriesFrom(ents, 1)

\* extractErrorEntries is called outside parseLogFile's per-line try.
extractErrorEntriesThrows(ents) ==
  \E i \in 1..Len(ents) :
    \/ isErrorLineThrows(ents[i])
    \/ isErrorLine(ents[i]) /\ createErrorEntryThrows(ents[i])

\* ------------------------------------------------------------ LogFileReader

\* this.options.maxFileSize as the constructor sets it
maxFileSize == IF parseOptions.maxFileSize # 0 THEN parseOptions.maxFileSize
               ELSE defaultMaxFileSize

\* A validation whose size check comes before the regular-file check.
validateSizeFirst ==
  IF ~path.exists THEN "missing"
  ELSE IF path.size > maxFileSize * BytesPerMB THEN "tooLarge"
  ELSE IF ~path.isFile THEN "notFile"
  ELSE "none"

\* validateFile: the rejection it throws, "none" when it returns.
\* stats.size / (1024 * 1024) > maxFileSize, compared in bytes.
validateFile ==
  IF ~path.exists THEN "missing"
  ELSE IF ~path.isFile THEN "notFile"
  ELSE IF path.size > maxFileSize * BytesPerMB THEN "tooLarge"
  ELSE "none"

\* ---------------------------------------------------------------- LogParser

\* timelinePosition: errorEntry.lineNumber / allEntries.length, kept as the
\* fraction num / den.
calculateTimelinePosition(errorEntry, allEntries) ==
  [set |-> TRUE, num |-> errorEntry.lineNumber, den |-> Len(allEntries)]

analyzeContextRelations(errs, allEntries) ==
  [i \in 1..Len(errs) |->
     [errs[i] EXCEPT !.metadata = calculateTimelinePosition(errs[i], allEntries)]]

RECURSIVE parseLines(_, _, _)
parseLines(lines, i, fmt) ==
  IF i > Len(lines) THEN <<>>
  ELSE IF IsBlank(lines[i]) THEN parseLines(lines, i + 1, fmt)
  ELSE <<parseLogEntry(lines[i], i, fmt)>> \o parseLines(lines, i + 1, fmt)

ShortFiles == UNION {[1..n -> Lines] : n \in 1..MaxLen}
StackFiles == UNION {[1..n -> StackLines] : n \in (MaxLen + 1)..MaxStackLen}
LongFiles ==
  {[i \in 1..n |-> IF i = p THEN k ELSE "jsonOk"] :
     n \in streamDetectThreshold..MaxLong, p \in 1..MaxLong, k \in Lines}
WindowFiles ==
  {<<"error">> \o [i \in 1..n |-> "frame"] \o tail :
     n \in (maxLookAhead - 3)..MaxFrames, tail \in {<<>>, <<"info">>, <<"empty">>}}

Files == ShortFiles \cup StackFiles \cup LongFiles \cup WindowFiles

\* A readable regular file of a few bytes, and the default options.
SmallFile == [exists |-> TRUE, isFile |-> TRUE, size |-> 64]
DefaultOptions == [maxFileSize |-> 0, contextLines |-> 0]

\* The paths and size caps validateFile is tried on: sizes at and just above
\* each cap, on regular files and on directories, and a path that is absent.
ProbeCaps == {0, 1, 2}
\* The contextLines options given: none, and one line on each side.
ProbeContexts == {0, 1}
ProbeSizes ==
  {0} \cup {c * BytesPerMB + d : c \in {1, 2, defaultMaxFileSize}, d \in {0, 1}}
ProbePaths ==
  {[exists |-> FALSE, isFile |-> FALSE, size |-> 0]}
    \cup [exists : {TRUE}, isFile : BOOLEAN, size : ProbeSizes]
ProbeFiles == {<<"empty">>, <<"error", "frame", "info", "empty">>}

NoProgress == [called |-> FALSE, processed |-> 0, errors |-> <<>>]

NoResult == [locations |-> <<>>, relatedFiles |-> <<>>, indexUsed |-> FALSE]

NoParsed == [line |-> "empty", format |-> "text", called |-> FALSE]

NoIndex == [used |-> FALSE, files |-> <<>>]

RootIdle ==
  /\ dirs = <<>>
  /\ currentPath = 0
  /\ fpc = "idle"
  /\ detectedRoot = 0
  /\ autoRoot = 0

LocatorIdle ==
  /\ projectRoot = "null"
  /\ locatorIndex = NoIndex
  /\ lastScan = "none"
  /\ indexings = 0
  /\ errorsGiven = <<>>
  /\ located = <<>>

DetectorIdle ==
  /\ samples = << <<>>, <<>> >>
  /\ detected = <<"none", "none">>
  /\ parsed = NoParsed

CorrelatorIdle ==
  /\ corrErrors = <<>>
  /\ cpc = "idle"

ParserIdle ==
  /\ fileLines = <<"empty">>
  /\ mode = "none"
  /\ pc = "idle"
  /\ pos = 0
  /\ lineNumber = 0
  /\ formatDetected = FALSE
  /\ format = "text"
  /\ entries = <<>>
  /\ errorEntries = <<>>
  /\ parseErrors = <<>>
  /\ totalLines = 0
  /\ rejection = "none"
  /\ path = SmallFile
  /\ parseOptions = DefaultOptions
  /\ opened = FALSE
  /\ silentChunks = 0
  /\ finalBatches = 0
  /\ progress = NoProgress

ReaderIdle ==
  /\ chunks = <<>>
  /\ chunkIdx = 0
  /\ buffer = <<>>
  /\ batches = <<>>
  /\ rpc = "idle"

MatcherIdle ==
  /\ stackTrace = <<>>
  /\ options = [maxResults |-> 0, fuzzyMatch |-> FALSE]
  /\ projectIndex = [used |-> FALSE, files |-> <<>>]
  /\ mpc = "idle"
  /\ traceIdx = 0
  /\ locations = <<>>
  /\ result = NoResult

Init ==
  /\ mode = "none"
  /\ pc = "start"
  /\ pos = 0
  /\ lineNumber = 0
  /\ formatDetected = FALSE
  /\ format = "text"
  /\ entries = <<>>
  /\ errorEntries = <<>>
  /\ parseErrors = <<>>
  /\ totalLines = 0
  /\ rejection = "none"
  /\ opened = FALSE
  /\ silentChunks = 0
  /\ finalBatches = 0
  /\ progress = NoProgress
  /\ \/ /\ fileLines \in Files
        /\ path = SmallFile
        /\ parseOptions = DefaultOptions
     \/ /\ fileLines \in ProbeFiles
        /\ path \in ProbePaths
        /\ parseOptions \in [maxFileSize : ProbeCaps, contextLines : ProbeContexts]
  /\ MatcherIdle
  /\ ReaderIdle
  /\ CorrelatorIdle
  /\ DetectorIdle
  /\ LocatorIdle
  /\ RootIdle

\* parseLogFile: readFile, the test lines.length === 0, detectFormat, the
\* per-line loop, extractErrorEntries, analyzeContextRelations; any throw
\* outside the per-line try rejects.  content.split(/\r?\n/) returns at least
\* one element, <<"empty">> for a zero-byte file.
ParseLogFile ==
  /\ pc = "start"
  /\ mode' = "file"
  /\ LET fmt  == detectFormat(fileLines)
         ents == parseLines(fileLines, 1, fmt)
     IN IF validateFile # "none"
          THEN /\ pc' = "failed"
               /\ rejection' = validateFile
               /\ UNCHANGED <<format, entries, errorEntries, totalLines, opened>>
          ELSE IF Len(fileLines) = 0
          THEN /\ pc' = "failed"
               /\ rejection' = "empty"
               /\ opened' = TRUE
               /\ UNCHANGED <<format, entries, errorEntries, totalLines>>
          ELSE IF extractErrorEntriesThrows(ents)
          THEN /\ pc' = "failed"
               /\ rejection' = "line"
               /\ opened' = TRUE
               /\ UNCHANGED <<format, entries, errorEntries, totalLines>>
          ELSE /\ pc' = "done"
               /\ rejection' = "none"
               /\ opened' = TRUE
               /\ format' = fmt
               /\ entries' = ents
               /\ errorEntries' = analyzeContextRelations(extractErrorEntries(ents), ents)
               /\ totalLines' = Len(fileLines)
  /\ UNCHANGED <<fileLines, pos, lineNumber, formatDetected, parseErrors,
                 path, parseOptions, silentChunks, finalBatches, progress>>
  /\ UNCHANGED matcherVars
  /\ UNCHANGED readerVars
  /\ UNCHANGED correlatorVars
  /\ UNCHANGED detectorVars
  /\ UNCHANGED locatorVars
  /\ UNCHANGED rootVars

\* readFileStream up to the creation of the stream: validateFile, then
\* fs.createReadStream; the stream's events come later.
ReadFileStream ==
  /\ pc = "start"
  /\ mode' = "stream"
  /\ IF validateFile # "none"
       THEN pc' = "failed" /\ rejection' = validateFile /\ UNCHANGED opened
       ELSE pc' = "stream" /\ opened' = TRUE /\ UNCHANGED rejection
  /\ UNCHANGED <<fileLines, pos, lineNumber, formatDetected, format, entries,
                 errorEntries, parseErrors, totalLines, path, parseOptions,
                 silentChunks, finalBatches, progress>>
  /\ UNCHANGED matcherVars
  /\ UNCHANGED readerVars
  /\ UNCHANGED correlatorVars
  /\ UNCHANGED detectorVars
  /\ UNCHANGED locatorVars
  /\ UNCHANGED rootVars

\* The body of parseLogFileStream's loop for one line; st holds entries,
\* errorEntries, parseErrors and lineNumber.
streamLine(st, line, fmt) ==
  LET n     == st.lineNumber + 1
      entry == parseLogEntry(line, n, fmt)
      ents  == Append(st.entries, entry)
  IN IF IsBlank(line) THEN [st EXCEPT !.lineNumber = n]
     ELSE IF isErrorLineThrows(entry)
               \/ (isErrorLine(entry) /\ createErrorEntryThrows(entry))
       THEN [st EXCEPT !.lineNumber = n,
                       !.parseErrors = Append(@, n),
                       !.entries = Append(ents, RawEntry(line, n))]
     ELSE IF isErrorLine(entry)
       THEN [st EXCEPT !.lineNumber = n,
                       !.entries = ents,
                       !.errorEntries = Append(@, createErrorEntry(entry, ents, Len(ents)))]
     ELSE [st EXCEPT !.lineNumber = n, !.entries = ents]

\* The loop over the first n lines of a batch, from the state st0.
RECURSIVE streamLines(_, _, _, _)
streamLines(st0, lines, n, fmt) ==
  IF n = 0 THEN st0
  ELSE streamLine(streamLines(st0, lines, n - 1, fmt), lines[n], fmt)

\* The callback parseLogFileStream hands to readFileStream; onProgress is
\* called after the loop with lineNumber and errorEntries.
onBatch(lines, isComplete) ==
  LET detect == ~formatDetected /\ Len(entries) + Len(lines) >= streamDetectThreshold
      fmt    == IF detect
                  THEN detectFormat([i \in 1..Len(entries) |-> entries[i].rawLine] \o lines)
                  ELSE format
      st     == streamLines([entries |-> entries, errorEntries |-> errorEntries,
                             parseErrors |-> parseErrors, lineNumber |-> lineNumber],
                            lines, Len(lines), fmt)
  IN /\ format' = fmt
     /\ formatDetected' = (formatDetected \/ detect)
     /\ entries' = st.entries
     /\ parseErrors' = st.parseErrors
     /\ lineNumber' = st.lineNumber
     /\ progress' = [called |-> TRUE, processed |-> st.lineNumber,
                     errors |-> [i \in 1..Len(st.errorEntries) |->
                                   st.errorEntries[i].lineNumber]]
     /\ finalBatches' = IF isComplete THEN finalBatches + 1 ELSE finalBatches
     /\ IF isComplete
          THEN /\ errorEntries' = analyzeContextRelations(st.errorEntries, st.entries)
               /\ totalLines' = st.lineNumber
               /\ pc' = "done"
          ELSE /\ errorEntries' = st.errorEntries
               /\ pc' = "stream"
               /\ UNCHANGED totalLines

\* readFileStream's 'data' handler on a chunk that completes k lines: the
\* callback is called when k > 0.  A chunk that completes none holds
\* characters of the next line.
StreamData ==
  /\ pc = "stream"
  /\ \E k \in 0..MaxBatch :
       IF k = 0
         THEN /\ silentChunks < MaxSilentChunks
              /\ pos < Len(fileLines)
              /\ LineText[fileLines[pos + 1]] # ""
              /\ silentChunks' = silentChunks + 1
              /\ UNCHANGED <<pos, pc, lineNumber, formatDetected, format, entries,
                             errorEntries, parseErrors, totalLines, finalBatches,
                             progress>>
         ELSE /\ pos + k <= Len(fileLines) - 1
              /\ pos' = pos + k
              /\ onBatch(SubSeq(fileLines, pos + 1, pos + k), FALSE)
              /\ UNCHANGED silentChunks
  /\ UNCHANGED <<fileLines, mode, rejection, path, parseOptions, opened>>
  /\ UNCHANGED matcherVars
  /\ UNCHANGED readerVars
  /\ UNCHANGED correlatorVars
  /\ UNCHANGED detectorVars
  /\ UNCHANGED locatorVars
  /\ UNCHANGED rootVars

\* A stream's 'end' handler whose last batch is not flagged as final.
StreamEndNotFinal ==
  /\ pc = "stream"
  /\ pos = Len(fileLines) - 1
  /\ LET last == fileLines[Len(fileLines)]
     IN onBatch(IF last = "empty" THEN <<>> ELSE <<last>>, FALSE)
  /\ pos' = Len(fileLines)
  /\ UNCHANGED <<fileLines, mode, rejection, path, parseOptions, opened, silentChunks>>
  /\ UNCHANGED matcherVars
  /\ UNCHANGED readerVars
  /\ UNCHANGED correlatorVars
  /\ UNCHANGED detectorVars
  /\ UNCHANGED locatorVars
  /\ UNCHANGED rootVars

\* readFileStream's 'end' handler: the buffered last line, if it is not empty.
StreamEnd ==
  /\ pc = "stream"
  /\ pos = Len(fileLines) - 1
  /\ LET last == fileLines[Len(fileLines)]
     IN onBatch(IF last = "empty" THEN <<>> ELSE <<last>>, TRUE)
  /\ pos' = Len(fileLines)
  /\ UNCHANGED <<fileLines, mode, rejection, path, parseOptions, opened, silentChunks>>
  /\ UNCHANGED matcherVars
  /\ UNCHANGED readerVars
  /\ UNCHANGED correlatorVars
  /\ UNCHANGED detectorVars
  /\ UNCHANGED locatorVars
  /\ UNCHANGED rootVars

\* readFileStream's 'error' handler: the promise is rejected, and
\* parseLogFileStream's catch rejects its own.
StreamError ==
  /\ pc = "stream"
  /\ pc' = "failed"
  /\ rejection' = "stream"
  /\ UNCHANGED <<fileLines, mode, pos, lineNumber, formatDetected, format, entries,
                 errorEntries, parseErrors, totalLines, path, parseOptions, opened,
                 silentChunks, finalBatches, progress>>
  /\ UNCHANGED matcherVars
  /\ UNCHANGED readerVars
  /\ UNCHANGED correlatorVars
  /\ UNCHANGED detectorVars
  /\ UNCHANGED locatorVars
  /\ UNCHANGED rootVars

Next == ParseLogFile \/ ReadFileStream \/ StreamData \/ StreamEnd \/ StreamError

Spec == Init /\ [][Next]_vars

InitLive == Init /\ (Len(fileLines) <= MaxLiveLen \/ fileLines \in ProbeFiles)

\* The call is made, and an open stream goes on emitting events until it has
\* emitted 'end' or 'error'.
SpecLive ==
  /\ InitLive
  /\ [][Next]_vars
  /\ WF_vars(ParseLogFile \/ ReadFileStream)
  /\ WF_vars(StreamData \/ StreamEnd \/ StreamError)

\* --------------------------------------------------------- parser: claims

Done == pc = "done"
ErrorIndexes == 1..Len(errorEntries)

\* C1: every entry of errorEntries in a result of parseLogFile or
\* parseLogFileStream has level ERROR or FATAL.
C1_ErrorEntriesHaveErrorLevel ==
  Done => \A i \in ErrorIndexes : errorEntries[i].level \in {"ERROR", "FATAL"}

\* C2: every error entry's timelinePosition is lineNumber / (number of
\* entries) and lies in (0, 1], blank lines in the file included.
C2_TimelinePositionInUnitInterval ==
  Done => \A i \in ErrorIndexes :
            LET m == errorEntries[i].metadata
            IN /\ m.set
               /\ m.num = errorEntries[i].lineNumber
               /\ m.den = Len(entries)
               /\ 0 < m.num
               /\ m.num <= m.den

\* C3: in a streaming result, an ERROR line followed by exactly two frame
\* lines and then a new timestamped INFO line has an error entry with exactly
\* two stack frames, however the lines were cut into batches.
C3_StreamKeepsFollowingFrames ==
  (Done /\ mode = "stream") =>
    \A i \in 1..(Len(fileLines) - 3) :
      (/\ fileLines[i] = "error"
       /\ fileLines[i + 1] = "frame"
       /\ fileLines[i + 2] = "frame"
       /\ fileLines[i + 3] = "info")
      => \E j \in ErrorIndexes :
           /\ errorEntries[j].lineNumber = i
           /\ Len(errorEntries[j].stackTrace) = 2

\* The stop rules, stated over the entries that follow entry c: the lines the
\* scan visits, the first line that stops it, and the frame lines before that.
C4_Visited(c) == (c + 1)..Min(Len(entries), c + maxLookAhead - 1)
C4_Stops(c) ==
  {j \in C4_Visited(c) :
     \/ isNewLogEntry(entries[j].rawLine)
     \/ /\ ~IsFrameLine(entries[j].rawLine)
        /\ \E k \in (c + 1)..(j - 1) : IsFrameLine(entries[k].rawLine)}
C4_Stop(c) ==
  IF C4_Stops(c) = {} THEN Min(Len(entries), c + maxLookAhead - 1) + 1
  ELSE CHOOSE j \in C4_Stops(c) : \A k \in C4_Stops(c) : j <= k
C4_Frames(c) ==
  {entries[j].lineNumber : j \in {k \in (c + 1)..(C4_Stop(c) - 1) :
                                    IsFrameLine(entries[k].rawLine)}}

\* C4: in a parseLogFile result, the stack trace of the error entry made from
\* entry c holds exactly the frame lines between c and the first stopping line
\* (a new log entry, or a non-frame line after a frame), in file order.
C4_StackTraceObeysStopRules ==
  (Done /\ mode = "file") =>
    \A i \in ErrorIndexes : \A c \in 1..Len(entries) :
      entries[c].lineNumber = errorEntries[i].lineNumber =>
        LET st == errorEntries[i].stackTrace
        IN /\ {st[k].at : k \in 1..Len(st)} = C4_Frames(c)
           /\ Len(st) = Cardinality(C4_Frames(c))
           /\ \A k \in 1..(Len(st) - 1) : st[k].at < st[k + 1].at
           /\ \A k \in 1..Len(st) : st[k].rawLine = "frame"

\* C4's case: a non-frame line skipped before the first frame, one frame
\* collected, and a non-frame line that ends the trace before a later frame.
C4_Witness ==
  /\ Done
  /\ mode = "file"
  /\ fileLines = <<"error", "prose", "frame", "prose", "frame">>
  /\ Len(errorEntries) = 1
  /\ errorEntries[1].stackTrace = <<[rawLine |-> "frame", at |-> 3]>>

\* C5: in a parseLogFile result, an error line followed by 50 or more
\* consecutive frame lines has exactly 50 stack frames.
C5_WindowIsFiftyLines ==
  (/\ Done
   /\ mode = "file"
   /\ Len(fileLines) >= 51
   /\ fileLines[1] = "error"
   /\ \A i \in 2..51 : fileLines[i] = "frame")
  => Len(errorEntries[1].stackTrace) = 50

\* C7: a failure while processing one line never rejects the parse, and in a
\* result every line recorded in parseErrors is retained as a raw entry.
C7_LineFailureNeverAborts ==
  /\ rejection # "line"
  /\ Done => \A i \in 1..Len(parseErrors) :
               \E j \in 1..Len(entries) :
                 entries[j] = RawEntry(fileLines[parseErrors[i]], parseErrors[i])

\* C8: in a result, entries holds exactly one entry per non-blank line, with
\* the line's 1-based position as lineNumber, strictly increasing.
C8_OneEntryPerNonBlankLine ==
  Done =>
    /\ {entries[i].lineNumber : i \in 1..Len(entries)}
         = {n \in 1..Len(fileLines) : ~IsBlank(fileLines[n])}
    /\ \A i \in 1..Len(entries) :
         entries[i].rawLine = fileLines[entries[i].lineNumber]
    /\ \A i \in 1..(Len(entries) - 1) :
         entries[i].lineNumber < entries[i + 1].lineNumber

\* C12: both read modes check the path before reading, in the order
\* existence, regular file, size cap; the first failing check gives its own
\* rejection and the file is never opened and nothing is delivered; a path
\* that passes the three checks (size at most the cap) is opened.
C12_ValidationBeforeRead ==
  mode # "none" =>
    /\ ~path.exists => pc = "failed" /\ rejection = "missing"
    /\ (path.exists /\ ~path.isFile) => pc = "failed" /\ rejection = "notFile"
    /\ (path.exists /\ path.isFile /\ path.size > maxFileSize * BytesPerMB)
         => pc = "failed" /\ rejection = "tooLarge"
    /\ rejection \in {"missing", "notFile", "tooLarge"}
         => /\ ~opened
            /\ pos = 0 /\ lineNumber = 0
            /\ entries = <<>> /\ errorEntries = <<>> /\ totalLines = 0
    /\ (path.exists /\ path.isFile /\ path.size <= maxFileSize * BytesPerMB)
         => opened /\ rejection \notin {"missing", "notFile", "tooLarge"}

\* C12's case: a streaming read of a directory larger than the cap is
\* rejected as not a file, unopened.
C12_Witness ==
  /\ mode = "stream"
  /\ path.exists /\ ~path.isFile /\ path.size > maxFileSize * BytesPerMB
  /\ pc = "failed"
  /\ rejection = "notFile"
  /\ ~opened

\* C14: in a streaming parse onProgress is called after every chunk read and
\* once more at the end of the stream, each time with the lines processed so
\* far and the errors found so far; the last call carries totalLines.
C14_ProgressAfterEachChunk ==
  (mode = "stream" /\ pc \in {"stream", "done"}) =>
    /\ silentChunks = 0
    /\ (pos > 0 \/ Done) => progress.called
    /\ progress.processed = lineNumber
    /\ progress.errors = [i \in ErrorIndexes |-> errorEntries[i].lineNumber]
    /\ Done => progress.processed = totalLines

\* What holds of the final batch in every state of a streaming parse: it is
\* delivered at most once, the promise is resolved exactly when it has been
\* delivered, processed (every line read, totalLines set) and correlated, a
\* stream that has run its 'end' handler is resolved, and a rejected promise
\* had no final batch.
C15_FinalBatchOnce ==
  mode = "stream" =>
    /\ finalBatches <= 1
    /\ Done <=> finalBatches = 1
    /\ pos = Len(fileLines) => Done
    /\ Done => /\ pos = Len(fileLines)
               /\ totalLines = lineNumber
               /\ progress.called
               /\ \A i \in ErrorIndexes : errorEntries[i].metadata.set
    /\ pc = "failed" => finalBatches = 0
    /\ rejection = "stream" => pc = "failed"

\* C15: in a streaming parse the batch callback is called with the final flag
\* exactly once in a successful run, no callback follows it, and the promise
\* resolves only then; a stream error rejects the promise with no final batch;
\* and every call eventually settles.
C15_StreamSettlesAfterFinalBatch ==
  /\ []C15_FinalBatchOnce
  /\ [][finalBatches = 1 => (progress' = progress /\ entries' = entries
                              /\ finalBatches' = finalBatches)]_vars
  /\ (mode = "stream") ~> (pc \in {"done", "failed"})

\* C15's case: a stream that delivered several batches, a silent chunk among
\* its chunks, then the final batch, and resolved.
C15_Witness ==
  /\ mode = "stream"
  /\ Done
  /\ finalBatches = 1
  /\ silentChunks = 1
  /\ fileLines = <<"error", "frame", "info", "empty">>
  /\ Len(errorEntries) = 1

\* ------------------------------------------------------------- CodeMatcher

\* Bounds of the searches: frames per stack trace, and the largest
\* maxResults a caller gives.
MaxTrace == 2
MaxResultsGiven == 4

\* options.maxResults || 20
defaultMaxResults == 20

\* The project tree under projectRoot, in the order glob lists it.
TreeFiles ==
  << "/p/src/Service.java", "/p/test/Service.java", "/p/build/Service.java",
     "/p/dist/Service.java", "/p/src/ServiceImpl.java", "/p/app.py" >>

\* The text of each file, as content.split('\n'), one name per line:
\*   classService          "public class Service {"
\*   methodHandle          "  public void handle() {"
\*   classServiceImpl      "public class ServiceImpl extends com.example.Service {"
\*   methodHandleQualified "  public com.example.Service handle() {"
\*   defRun                "def run():"
FileContent(filePath) ==
  CASE filePath = "/p/src/ServiceImpl.java" -> <<"classServiceImpl", "methodHandleQualified">>
    [] filePath = "/p/app.py"               -> <<"defRun">>
    [] OTHER                                -> <<"classService", "methodHandle">>

\* path.basename, path.extname, and basename without the extension
basename(filePath) ==
  CASE filePath = "/p/src/ServiceImpl.java" -> "ServiceImpl.java"
    [] filePath \in {"/p/app.py", "app.py"} -> "app.py"
    [] OTHER                                -> "Service.java"
extname(filePath) == IF basename(filePath) = "app.py" THEN ".py" ELSE ".java"
stem(filePath) ==
  CASE basename(filePath) = "ServiceImpl.java" -> "ServiceImpl"
    [] basename(filePath) = "app.py"           -> "app"
    [] OTHER                                   -> "Service"

\* The stem occurs in the file's name: glob's **/*<stem>*
NameContains(filePath, s) ==
  \/ stem(filePath) = s
  \/ stem(filePath) = "ServiceImpl" /\ s = "Service"

\* ignore: ['**/node_modules/**', '**/target/**', '**/build/**']
GlobIgnored(filePath) == filePath = "/p/build/Service.java"

\* DEFAULT_EXCLUDE_PATTERNS: '**/build/**' and '**/dist/**' among them
ScanExcluded(filePath) ==
  filePath \in {"/p/build/Service.java", "/p/dist/Service.java"}

\* getLanguageFromExtension, and LanguageDetector.detectByExtension on these files
getLanguageFromExtension(ext) ==
  CASE ext = ".java" -> "java"
    [] ext = ".py"   -> "python"
    [] OTHER         -> "unknown"

\* The stack frames searched for (className, methodName "" and lineNumber -1
\* stand for undefined).
Frames ==
  { [fileName |-> "Service.java", lineNumber |-> 42,
     className |-> "com.example.Service", methodName |-> "handle"],
    [fileName |-> "Service.java", lineNumber |-> 1,
     className |-> "com.example.Service", methodName |-> "init"],
    [fileName |-> "app.py", lineNumber |-> 7, className |-> "", methodName |-> "run"],
    [fileName |-> "", lineNumber |-> -1,
     className |-> "sun.reflect.NativeMethodAccessorImpl", methodName |-> "invoke0"] }

\* fullClassName.split('.').pop() || fullClassName
extractSimpleClassName(fullClassName) ==
  CASE fullClassName = "com.example.Service" -> "Service"
    [] fullClassName = "sun.reflect.NativeMethodAccessorImpl" -> "NativeMethodAccessorImpl"
    [] OTHER -> fullClassName

\* classPattern.test(line) for the language's class pattern
ClassPatternMatches(language, line, className) ==
  CASE language = "java"   -> line = "classService" /\ className = "Service"
    [] language = "python" -> FALSE
    [] OTHER -> /\ className = "Service"
                /\ line \in {"classService", "classServiceImpl", "methodHandleQualified"}

\* methodPattern.test(line) for the language's method pattern
MethodPatternMatches(language, line, methodName) ==
  CASE language = "java" ->
         \/ line \in {"methodHandle", "methodHandleQualified"} /\ methodName = "handle"
         \/ line = "defRun" /\ methodName = "run"
    [] language = "python" -> line = "defRun" /\ methodName = "run"
    [] OTHER ->
         \/ line \in {"methodHandle", "methodHandleQualified"} /\ methodName = "handle"
         \/ line = "defRun" /\ methodName = "run"

\* line.includes(className)
LineIncludes(line, className) ==
  /\ className = "com.example.Service"
  /\ line \in {"classServiceImpl", "methodHandleQualified"}

RECURSIVE Flatten(_)
Flatten(seqs) == IF seqs = <<>> THEN <<>> ELSE Head(seqs) \o Flatten(Tail(seqs))

\* The paths of the project tree.
TreePaths == {TreeFiles[i] : i \in 1..Len(TreeFiles)}

\* glob(pattern, {cwd: projectRoot, absolute: true, ignore}), where selected
\* is the set of paths the pattern matches.
Glob(selected) ==
  SelectSeq(TreeFiles, LAMBDA f : ~GlobIgnored(f) /\ f \in selected)

\* ProjectScanner.scanProject with default options: the files of the tree
\* outside the excluded directories whose language is known.
scanProject ==
  [used |-> TRUE,
   files |-> SelectSeq(TreeFiles,
               LAMBDA f : ~ScanExcluded(f)
                          /\ getLanguageFromExtension(extname(f)) # "unknown")]

Location(filePath, line, class, method, conf, reason) ==
  [filePath |-> filePath, lineNumber |-> line, className |-> class,
   methodName |-> method, confidence |-> conf, matchReason |-> reason]

\* Confidences are kept in tenths: 9 is 0.9.
findByExactFileName(fileName, line) ==
  LET files == IF projectIndex.used
                 THEN SelectSeq(projectIndex.files,
                                LAMBDA f : basename(f) = basename(fileName))
                 ELSE Glob({f \in TreePaths : basename(f) = basename(fileName)})
  IN [i \in 1..Len(files) |-> Location(files[i], line, "", "", 9, "exact")]

findClassInContent(content, className, filePath, language) ==
  LET hits == SelectSeq([i \in 1..Len(content) |-> i],
                        LAMBDA i : ClassPatternMatches(language, content[i], className))
  IN [k \in 1..Len(hits) |-> Location(filePath, hits[k], className, "", 8, "class")]

ClassGlobPatterns == <<".java", ".cs", ".cpp", ".py", ".js", ".ts">>

findByClassName(className) ==
  LET simple == extractSimpleClassName(className)
      files == IF projectIndex.used THEN projectIndex.files
               ELSE Flatten([p \in 1..Len(ClassGlobPatterns) |->
                               Glob({f \in TreePaths : extname(f) = ClassGlobPatterns[p]})])
  IN Flatten([i \in 1..Len(files) |->
                findClassInContent(FileContent(files[i]), simple, files[i],
                                   getLanguageFromExtension(extname(files[i])))])

\* A method match that is given 0.9 whatever its line contains.
findMethodInContentFlat(content, methodName, className, filePath, language) ==
  LET hits == SelectSeq([i \in 1..Len(content) |-> i],
                        LAMBDA i : MethodPatternMatches(language, content[i], methodName))
  IN [k \in 1..Len(hits) |->
        Location(filePath, hits[k], className, methodName, 9, "method")]

findMethodInContent(content, methodName, className, filePath, language) ==
  LET hits == SelectSeq([i \in 1..Len(content) |-> i],
                        LAMBDA i : MethodPatternMatches(language, content[i], methodName))
  IN [k \in 1..Len(hits) |->
        Location(filePath, hits[k], className, methodName,
                 IF className # "" /\ LineIncludes(content[hits[k]], className)
                   THEN 9 ELSE 7,
                 "method")]

SourceGlobPatterns ==
  <<".java", ".cs", ".cpp", ".py", ".js", ".ts", ".go", ".rs", ".kt">>

\* [...new Set(allFiles)] over the nine patterns
getAllSourceFiles ==
  Glob({f \in TreePaths : \E p \in 1..Len(SourceGlobPatterns) : extname(f) = SourceGlobPatterns[p]})

findByMethodName(methodName, className) ==
  LET files == IF projectIndex.used THEN projectIndex.files ELSE getAllSourceFiles
  IN Flatten([i \in 1..Len(files) |->
                findMethodInContent(FileContent(files[i]), methodName, className, files[i],
                                    getLanguageFromExtension(extname(files[i])))])

\* The fuzzy strategy globs the tree whether or not an index is set.
findByFuzzyMatch(trace) ==
  IF trace.fileName = "" THEN <<>>
  ELSE LET files == Glob({f \in TreePaths : NameContains(f, stem(trace.fileName))})
       IN [i \in 1..Len(files) |->
             Location(files[i], trace.lineNumber, "", "", 3, "fuzzy")]

findLocationForStackTrace(trace) ==
  (IF trace.fileName # "" THEN findByExactFileName(trace.fileName, trace.lineNumber)
   ELSE <<>>)
  \o (IF trace.className # "" THEN findByClassName(trace.className) ELSE <<>>)
  \o (IF trace.methodName # ""
        THEN findByMethodName(trace.methodName, trace.className) ELSE <<>>)
  \o (IF options.fuzzyMatch THEN findByFuzzyMatch(trace) ELSE <<>>)

\* `${filePath}:${lineNumber || 0}:${methodName || ''}`
LocationKey(location) ==
  <<location.filePath,
    IF location.lineNumber = -1 THEN 0 ELSE location.lineNumber,
    location.methodName>>

\* The loop of deduplicateLocations over the first n locations.
RECURSIVE deduplicatePrefix(_, _)
deduplicatePrefix(locs, n) ==
  IF n = 0 THEN <<>>
  ELSE LET unique == deduplicatePrefix(locs, n - 1)
       IN IF \E k \in 1..Len(unique) : LocationKey(unique[k]) = LocationKey(locs[n])
            THEN unique
            ELSE Append(unique, locs[n])

\* No deduplication.
keepAllLocations(locs) == locs

deduplicateLocations(locs) == deduplicatePrefix(locs, Len(locs))

\* Array.prototype.sort((a, b) => b.confidence - a.confidence): a stable sort,
\* here by insertion of each element after those at least as confident.
insertByConfidence(sorted, x) ==
  LET k == Cardinality({i \in 1..Len(sorted) : sorted[i].confidence >= x.confidence})
  IN SubSeq(sorted, 1, k) \o <<x>> \o SubSeq(sorted, k + 1, Len(sorted))

RECURSIVE sortPrefix(_, _)
sortPrefix(locs, n) ==
  IF n = 0 THEN <<>> ELSE insertByConfidence(sortPrefix(locs, n - 1), locs[n])

\* No sort: the order the strategies produced.
keepProducedOrder(locs) == locs

sortByConfidence(locs) == sortPrefix(locs, Len(locs))

\* for (location of sortedLocations) if (!relatedFiles.includes(..)) push
RECURSIVE collectRelatedFiles(_, _)
collectRelatedFiles(locs, n) ==
  IF n = 0 THEN <<>>
  ELSE LET files == collectRelatedFiles(locs, n - 1)
       IN IF \E k \in 1..Len(files) : files[k] = locs[n].filePath
            THEN files
            ELSE Append(files, locs[n].filePath)

\* sortedLocations.slice(0, options.maxResults || 20)
sliceLocations(sortedLocations) ==
  SubSeq(sortedLocations, 1,
         Min(Len(sortedLocations),
             IF options.maxResults # 0 THEN options.maxResults ELSE defaultMaxResults))

Traces == UNION {[1..n -> Frames] : n \in 1..MaxTrace}

InitMatcher ==
  /\ fileLines = <<"empty">>
  /\ mode = "none"
  /\ pc = "idle"
  /\ pos = 0
  /\ lineNumber = 0
  /\ formatDetected = FALSE
  /\ format = "text"
  /\ entries = <<>>
  /\ errorEntries = <<>>
  /\ parseErrors = <<>>
  /\ totalLines = 0
  /\ rejection = "none"
  /\ path = SmallFile
  /\ parseOptions = DefaultOptions
  /\ opened = FALSE
  /\ silentChunks = 0
  /\ finalBatches = 0
  /\ progress = NoProgress
  /\ stackTrace \in Traces
  /\ options \in [maxResults : 0..MaxResultsGiven, fuzzyMatch : BOOLEAN]
  /\ projectIndex \in {[used |-> FALSE, files |-> <<>>], scanProject}
  /\ mpc = "search"
  /\ traceIdx = 0
  /\ locations = <<>>
  /\ result = NoResult
  /\ ReaderIdle
  /\ CorrelatorIdle
  /\ DetectorIdle
  /\ LocatorIdle
  /\ RootIdle

\* One turn of findCodeLocations' loop over the stack trace.
FindLocationForStackTrace ==
  /\ mpc = "search"
  /\ traceIdx < Len(stackTrace)
  /\ locations' = locations \o findLocationForStackTrace(stackTrace[traceIdx + 1])
  /\ traceIdx' = traceIdx + 1
  /\ UNCHANGED <<stackTrace, options, projectIndex, mpc, result>>
  /\ UNCHANGED parserVars
  /\ UNCHANGED readerVars
  /\ UNCHANGED correlatorVars
  /\ UNCHANGED detectorVars
  /\ UNCHANGED locatorVars
  /\ UNCHANGED rootVars

\* After the loop: deduplicate, sort, collect the related files, truncate.
ReturnCodeLocations ==
  /\ mpc = "search"
  /\ traceIdx = Len(stackTrace)
  /\ LET sortedLocations == sortByConfidence(deduplicateLocations(locations))
     IN result' = [locations    |-> sliceLocations(sortedLocations),
                   relatedFiles |-> collectRelatedFiles(sortedLocations,
                                                        Len(sortedLocations)),
                   indexUsed    |-> projectIndex.used]
  /\ mpc' = "done"
  /\ UNCHANGED <<stackTrace, options, projectIndex, traceIdx, locations>>
  /\ UNCHANGED parserVars
  /\ UNCHANGED readerVars
  /\ UNCHANGED correlatorVars
  /\ UNCHANGED detectorVars
  /\ UNCHANGED locatorVars
  /\ UNCHANGED rootVars

NextMatcher == FindLocationForStackTrace \/ ReturnCodeLocations

SpecMatcher == InitMatcher /\ [][NextMatcher]_vars

\* -------------------------------------------------------- matcher: claims

Found == mpc = "done"
Returned == 1..Len(result.locations)
Triple(location) == <<location.filePath, location.lineNumber, location.methodName>>
Limit == IF options.maxResults # 0 THEN options.maxResults ELSE defaultMaxResults

\* C6: relatedFiles is exactly the set of the file paths of the returned
\* locations.
C6_RelatedFilesAreReturnedFiles ==
  Found => {result.relatedFiles[i] : i \in 1..Len(result.relatedFiles)}
             = {result.locations[i].filePath : i \in Returned}

\* C9: no two returned locations share (filePath, lineNumber, methodName).
C9_NoDuplicateTriples ==
  Found => \A i, j \in Returned :
             i # j => Triple(result.locations[i]) # Triple(result.locations[j])

\* C9's case: the strategies produced the same triple more than once, and
\* locations were returned.
C9_Witness ==
  /\ Found
  /\ Len(result.locations) >= 2
  /\ \E i, j \in 1..Len(locations) : i # j /\ Triple(locations[i]) = Triple(locations[j])

\* The candidates that survive deduplication: the first of each key.
C10_Survivors ==
  {c \in 1..Len(locations) :
     \A b \in 1..(c - 1) : LocationKey(locations[b]) # LocationKey(locations[c])}

\* C10: the returned locations are in non-increasing order of confidence, as
\* many as the limit allows, each a deduplicated candidate, and no
\* deduplicated candidate left out is more confident than one returned.
C10_SortedByConfidence ==
  Found =>
    /\ \A i \in 1..(Len(result.locations) - 1) :
         result.locations[i].confidence >= result.locations[i + 1].confidence
    /\ Len(result.locations) = Min(Limit, Cardinality(C10_Survivors))
    /\ \A r \in Returned : \E c \in C10_Survivors : result.locations[r] = locations[c]
    /\ \A c \in C10_Survivors :
         (\A r \in Returned : result.locations[r] # locations[c])
         => \A r \in Returned :
              result.locations[r].confidence >= locations[c].confidence

\* C10's case: candidates of three confidences produced in another order than
\* the one returned, and truncation dropped some.
C10_Witness ==
  /\ Found
  /\ options.maxResults = 4
  /\ Len(result.locations) = 4
  /\ Cardinality({LocationKey(locations[i]) : i \in 1..Len(locations)}) > 4
  /\ result.locations[1].confidence > result.locations[4].confidence
  /\ \E i, j \in 1..Len(locations) :
       i < j /\ locations[i].confidence < locations[j].confidence

\* The confidence, in tenths, the strategy named by a location's matchReason
\* gives it; for a method match the location's line is the matched line.
C11_StrategyConfidence(location) ==
  CASE location.matchReason = "exact"  -> 9
    [] location.matchReason = "class"  -> 8
    [] location.matchReason = "fuzzy"  -> 3
    [] location.matchReason = "method" ->
         IF /\ location.className # ""
            /\ LineIncludes(FileContent(location.filePath)[location.lineNumber],
                            location.className)
           THEN 9 ELSE 7

\* C11: every location a strategy produced, and every location returned, has
\* the confidence of its strategy (0.9 exact, 0.8 class, 0.9 or 0.7 method,
\* 0.3 fuzzy), a value in [0, 1].
C11_ConfidenceFixedByStrategy ==
  /\ \A i \in 1..Len(locations) :
       /\ locations[i].confidence = C11_StrategyConfidence(locations[i])
       /\ locations[i].confidence \in 0..10
  /\ \A r \in Returned :
       /\ result.locations[r].confidence = C11_StrategyConfidence(result.locations[r])
       /\ result.locations[r].confidence \in 0..10

\* C11's case: one search whose candidates come from all four strategies,
\* with method matches of both confidences.
C11_Witness ==
  /\ Found
  /\ \A reason \in {"exact", "class", "method", "fuzzy"} :
       \E i \in 1..Len(locations) : locations[i].matchReason = reason
  /\ \E i, j \in 1..Len(locations) :
       /\ locations[i].matchReason = "method" /\ locations[i].confidence = 9
       /\ locations[j].matchReason = "method" /\ locations[j].confidence = 7

\* ------------------------------------------- LogFileReader: the stream read

\* Longest file content, in characters, the stream read is tried on.
MaxContent == 4

\* The characters of a content: two letters, carriage return and line feed.
Chars == {"a", "b", "CR", "LF"}

\* The index of the first line feed of str, 0 when it has none.
firstLineFeed(str) ==
  IF \E i \in 1..Len(str) : str[i] = "LF"
    THEN CHOOSE i \in 1..Len(str) :
           str[i] = "LF" /\ \A j \in 1..(i - 1) : str[j] # "LF"
    ELSE 0

\* str.split(/\r?\n/)
RECURSIVE splitLines(_)
splitLines(str) ==
  LET i == firstLineFeed(str)
  IN IF i = 0 THEN <<str>>
     ELSE LET cut == IF i > 1 /\ str[i - 1] = "CR" THEN i - 2 ELSE i - 1
          IN <<SubSeq(str, 1, cut)>> \o splitLines(SubSeq(str, i + 1, Len(str)))

\* readFile: content.split(/\r?\n/)
readFile(content) == splitLines(content)

\* A 'data' handler that splits each chunk on its own.
onDataWithoutCarry(buf, chunk) ==
  LET lines == splitLines(chunk)
  IN [buffer |-> lines[Len(lines)], lines |-> SubSeq(lines, 1, Len(lines) - 1)]

\* The 'data' handler: buffer += chunk; lines = buffer.split(/\r?\n/);
\* buffer = lines.pop() || ''; the lines left are the batch.
onData(buf, chunk) ==
  LET lines == splitLines(buf \o chunk)
  IN [buffer |-> lines[Len(lines)], lines |-> SubSeq(lines, 1, Len(lines) - 1)]

\* Every way of cutting a content into non-empty chunks.
RECURSIVE Cuts(_)
Cuts(content) ==
  IF content = <<>> THEN {<<>>}
  ELSE UNION {{<<SubSeq(content, 1, k)>> \o rest :
                 rest \in Cuts(SubSeq(content, k + 1, Len(content)))} :
              k \in 1..Len(content)}

Contents == UNION {[1..n -> Chars] : n \in 0..MaxContent}

InitReader ==
  /\ fileLines = <<"empty">>
  /\ mode = "none"
  /\ pc = "idle"
  /\ pos = 0
  /\ lineNumber = 0
  /\ formatDetected = FALSE
  /\ format = "text"
  /\ entries = <<>>
  /\ errorEntries = <<>>
  /\ parseErrors = <<>>
  /\ totalLines = 0
  /\ rejection = "none"
  /\ path = SmallFile
  /\ parseOptions = DefaultOptions
  /\ opened = FALSE
  /\ silentChunks = 0
  /\ finalBatches = 0
  /\ progress = NoProgress
  /\ MatcherIdle
  /\ chunks \in UNION {Cuts(content) : content \in Contents}
  /\ chunkIdx = 0
  /\ buffer = <<>>
  /\ batches = <<>>
  /\ rpc = "reading"
  /\ CorrelatorIdle
  /\ DetectorIdle
  /\ LocatorIdle
  /\ RootIdle

\* stream.on('data'): the callback is called when the chunk completed a line.
OnData ==
  /\ rpc = "reading"
  /\ chunkIdx < Len(chunks)
  /\ LET r == onData(buffer, chunks[chunkIdx + 1])
     IN /\ buffer' = r.buffer
        /\ batches' = IF Len(r.lines) > 0
                        THEN Append(batches, [lines |-> r.lines, isComplete |-> FALSE])
                        ELSE batches
  /\ chunkIdx' = chunkIdx + 1
  /\ UNCHANGED <<chunks, rpc>>
  /\ UNCHANGED <<parserVars, matcherVars>>
  /\ UNCHANGED correlatorVars
  /\ UNCHANGED detectorVars
  /\ UNCHANGED locatorVars
  /\ UNCHANGED rootVars

\* stream.on('end'): the buffered last line, when there is one, then resolve.
OnEnd ==
  /\ rpc = "reading"
  /\ chunkIdx = Len(chunks)
  /\ batches' = Append(batches,
                       [lines |-> IF Len(buffer) > 0 THEN <<buffer>> ELSE <<>>,
                        isComplete |-> TRUE])
  /\ rpc' = "ended"
  /\ UNCHANGED <<chunks, chunkIdx, buffer>>
  /\ UNCHANGED <<parserVars, matcherVars>>
  /\ UNCHANGED correlatorVars
  /\ UNCHANGED detectorVars
  /\ UNCHANGED locatorVars
  /\ UNCHANGED rootVars

\* stream.on('error'): the promise is rejected.
OnError ==
  /\ rpc = "reading"
  /\ rpc' = "failed"
  /\ UNCHANGED <<chunks, chunkIdx, buffer, batches>>
  /\ UNCHANGED <<parserVars, matcherVars>>
  /\ UNCHANGED correlatorVars
  /\ UNCHANGED detectorVars
  /\ UNCHANGED locatorVars
  /\ UNCHANGED rootVars

NextReader == OnData \/ OnEnd \/ OnError

SpecReader == InitReader /\ [][NextReader]_vars

\* --------------------------------------------------------- reader: claims

\* The lines delivered so far, batch after batch.
Delivered == Flatten([i \in 1..Len(batches) |-> batches[i].lines])
WholeFile == readFile(Flatten(chunks))

\* C13: however the content is cut into chunks, the lines delivered so far
\* are the first lines of the whole-file list, in order; at the end of the
\* stream they are that list, up to one trailing empty string; and the
\* buffer never holds a line feed.
C13_StreamDeliversWholeFileLines ==
  /\ \A i \in 1..Len(buffer) : buffer[i] # "LF"
  /\ Len(Delivered) <= Len(WholeFile)
  /\ Delivered = SubSeq(WholeFile, 1, Len(Delivered))
  /\ rpc = "ended" =>
       \/ Delivered = WholeFile
       \/ Delivered \o << <<>> >> = WholeFile

\* C13's case: a content cut between its carriage return and its line feed,
\* read to the end.
C13_Witness ==
  /\ rpc = "ended"
  /\ chunks = << <<"a", "CR">>, <<"LF", "b">> >>
  /\ Delivered = << <<"a">>, <<"b">> >>

\* ------------------------------------------- LogParser: the error correlator

\* Most error entries one call of analyzeContextRelations is given.
MaxErrors == 2
\* Lines of the log per error entry given: the entry's line and those after it.
LinesPerError == 12

\* findRelatedErrors: const timeThreshold = 5000
timeThreshold == 5000
\* calculateSeverity: errorEntry.stackTrace.length > 10
highStackLength == 10

\* new Date(timestamp).getTime() in milliseconds, counted from midnight of the
\* day the timestamps share; -1 is NaN, what an unparsable text gives.
DateGetTime(timestamp) ==
  CASE timestamp = "2024-01-01 10:00:00.000" -> 36000000
    [] timestamp = "2024-01-01 10:00:02.000" -> 36002000
    [] timestamp = "2024-01-01 10:00:05.001" -> 36005001
    [] timestamp = "2024-01-01 10:00:07.000" -> 36007000
    [] OTHER                                 -> -1

\* The timestamps of the entries: "" is undefined.
Timestamps ==
  {"", "not a date", "2024-01-01 10:00:00.000", "2024-01-01 10:00:02.000",
   "2024-01-01 10:00:05.001", "2024-01-01 10:00:07.000"}

\* The messages of the entries.
Messages ==
  {"CRITICAL: NullPointerException in handler", "NullPointerException in handler",
   "OutOfMemoryError: Java heap space", "StackOverflowError",
   "IOException: disk full", "FATAL: Segmentation fault", "request failed"}

\* message.toLowerCase().includes(keyword)
MessageIncludes(message, keyword) ==
  CASE keyword = "critical"      -> message = "CRITICAL: NullPointerException in handler"
    [] keyword = "nullpointer"   -> message \in {"CRITICAL: NullPointerException in handler",
                                                "NullPointerException in handler"}
    [] keyword = "outofmemory"   -> message = "OutOfMemoryError: Java heap space"
    [] keyword = "stackoverflow" -> message = "StackOverflowError"
    [] keyword = "fatal"         -> message = "FATAL: Segmentation fault"
    [] keyword = "segmentation"  -> message = "FATAL: Segmentation fault"
    [] OTHER                     -> FALSE

\* ErrorExtractor.extractErrorType: the first word ending in Exception or
\* Error; "" is undefined.
extractErrorType(message) ==
  CASE message \in {"CRITICAL: NullPointerException in handler",
                    "NullPointerException in handler"} -> "NullPointerException"
    [] message = "OutOfMemoryError: Java heap space"    -> "OutOfMemoryError"
    [] message = "StackOverflowError"                   -> "StackOverflowError"
    [] message = "IOException: disk full"               -> "IOException"
    [] OTHER                                            -> ""

\* Stack frames as parseStackTraceLine builds them; "" is undefined.  A Java
\* frame of a native method has no fileName, a Python frame no className.
Frame(class, file) == [className |-> class, fileName |-> file]
ServiceFrame      == Frame("com.example.Service", "Service.java")
OtherServiceFrame == Frame("com.other.Service", "Service.java")
DaoFrame          == Frame("com.example.Dao", "Dao.java")
NativeFrameA      == Frame("sun.reflect.NativeMethodAccessorImpl", "")
NativeFrameB      == Frame("java.lang.Thread", "")
PythonFrameA      == Frame("", "/app/service.py")
PythonFrameB      == Frame("", "/app/worker.py")

\* The stack traces of the entries, among them one of highStackLength
\* frames and one of a frame more.
StackTraces ==
  { <<>>, <<ServiceFrame>>, <<DaoFrame, OtherServiceFrame>>,
    <<NativeFrameA>>, <<NativeFrameB>>, <<PythonFrameA>>, <<PythonFrameB>>,
    [i \in 1..highStackLength |-> DaoFrame],
    [i \in 1..(highStackLength + 1) |-> DaoFrame] }

\* A severity whose rule for high is tried before its rule for critical.
calculateSeverityHighFirst(errorEntry) ==
  IF \/ MessageIncludes(errorEntry.message, "nullpointer")
     \/ MessageIncludes(errorEntry.message, "segmentation")
     \/ MessageIncludes(errorEntry.message, "stackoverflow")
     \/ Len(errorEntry.stackTrace) > highStackLength
    THEN "high"
  ELSE IF \/ MessageIncludes(errorEntry.message, "fatal")
          \/ MessageIncludes(errorEntry.message, "critical")
          \/ MessageIncludes(errorEntry.message, "outofmemory")
    THEN "critical"
  ELSE IF Len(errorEntry.stackTrace) > 0 THEN "medium"
  ELSE "low"

\* calculateSeverity: the first rule that applies.
calculateSeverity(errorEntry) ==
  IF \/ MessageIncludes(errorEntry.message, "fatal")
     \/ MessageIncludes(errorEntry.message, "critical")
     \/ MessageIncludes(errorEntry.message, "outofmemory")
    THEN "critical"
  ELSE IF \/ MessageIncludes(errorEntry.message, "nullpointer")
          \/ MessageIncludes(errorEntry.message, "segmentation")
          \/ MessageIncludes(errorEntry.message, "stackoverflow")
          \/ Len(errorEntry.stackTrace) > highStackLength
    THEN "high"
  ELSE IF Len(errorEntry.stackTrace) > 0 THEN "medium"
  ELSE "low"

\* An overlap test that compares undefined names as equal.
hasStackTraceOverlapUnguarded(error1, error2) ==
  \E i \in 1..Len(error1.stackTrace), j \in 1..Len(error2.stackTrace) :
    \/ error1.stackTrace[i].className = error2.stackTrace[j].className
    \/ error1.stackTrace[i].fileName = error2.stackTrace[j].fileName

hasStackTraceOverlap(error1, error2) ==
  \E i \in 1..Len(error1.stackTrace), j \in 1..Len(error2.stackTrace) :
    \/ /\ error1.stackTrace[i].className # ""
       /\ error2.stackTrace[j].className # ""
       /\ error1.stackTrace[i].className = error2.stackTrace[j].className
    \/ /\ error1.stackTrace[i].fileName # ""
       /\ error2.stackTrace[j].fileName # ""
       /\ error1.stackTrace[i].fileName = error2.stackTrace[j].fileName

\* Math.abs(a - b) <= timeThreshold; a comparison with NaN is false.
withinTimeThreshold(a, b) ==
  /\ a # -1
  /\ b # -1
  /\ (IF a >= b THEN a - b ELSE b - a) <= timeThreshold

\* The test findRelatedErrors' loop makes of one other error.
isRelatedError(targetError, error) ==
  \/ /\ targetError.timestamp # ""
     /\ error.timestamp # ""
     /\ withinTimeThreshold(DateGetTime(targetError.timestamp),
                            DateGetTime(error.timestamp))
  \/ /\ targetError.errorType # ""
     /\ error.errorType # ""
     /\ targetError.errorType = error.errorType
  \/ hasStackTraceOverlap(targetError, error)

\* findRelatedErrors for the t-th of allErrors: the line numbers of the
\* related ones, in the order of allErrors.
findRelatedErrors(t, allErrors) ==
  LET related == SelectSeq([i \in 1..Len(allErrors) |-> i],
                           LAMBDA i : i # t /\ isRelatedError(allErrors[t], allErrors[i]))
  IN [k \in 1..Len(related) |-> allErrors[related[k]].lineNumber]

\* An error entry as createErrorEntry leaves it, on line n of the log.
ErrorEntry(n, timestamp, message, frames) ==
  [lineNumber |-> n, timestamp |-> timestamp, message |-> message,
   errorType |-> extractErrorType(message), stackTrace |-> frames,
   metadata |-> [set |-> FALSE]]

\* The line of the i-th error entry given, and the entries of the whole log.
ErrorLine(i) == (i - 1) * LinesPerError + 1
AllEntriesOf(errs) == [n \in 1..(Len(errs) * LinesPerError) |-> RawEntry("prose", n)]

ErrorLists ==
  UNION {[1..n -> Timestamps \X Messages \X StackTraces] : n \in 1..MaxErrors}

InitCorrelator ==
  /\ ParserIdle
  /\ MatcherIdle
  /\ ReaderIdle
  /\ \E given \in ErrorLists :
       corrErrors = [i \in 1..Len(given) |->
                       ErrorEntry(ErrorLine(i), given[i][1], given[i][2], given[i][3])]
  /\ cpc = "correlate"
  /\ DetectorIdle
  /\ LocatorIdle
  /\ RootIdle

\* analyzeContextRelations: every error entry gets its severity, its related
\* errors and its timeline position.
AnalyzeContextRelations ==
  /\ cpc = "correlate"
  /\ corrErrors' =
       [i \in 1..Len(corrErrors) |->
          [corrErrors[i] EXCEPT !.metadata =
             [set              |-> TRUE,
              severity         |-> calculateSeverity(corrErrors[i]),
              relatedErrors    |-> findRelatedErrors(i, corrErrors),
              timelinePosition |-> calculateTimelinePosition(corrErrors[i],
                                                             AllEntriesOf(corrErrors))]]]
  /\ cpc' = "done"
  /\ UNCHANGED <<parserVars, matcherVars, readerVars>>
  /\ UNCHANGED detectorVars
  /\ UNCHANGED locatorVars
  /\ UNCHANGED rootVars

NextCorrelator == AnalyzeContextRelations

SpecCorrelator == InitCorrelator /\ [][NextCorrelator]_vars

\* ----------------------------------------------------- correlator: claims

Correlated == cpc = "done"

\* The three ways two entries are related, stated on the entries' fields.
C16_TimeClose(a, b) ==
  /\ DateGetTime(a.timestamp) # -1
  /\ DateGetTime(b.timestamp) # -1
  /\ DateGetTime(a.timestamp) - DateGetTime(b.timestamp) \in -timeThreshold..timeThreshold
C16_SameType(a, b) == a.errorType # "" /\ a.errorType = b.errorType
C16_SharedFrame(a, b) ==
  \E f \in {a.stackTrace[i] : i \in 1..Len(a.stackTrace)},
     g \in {b.stackTrace[j] : j \in 1..Len(b.stackTrace)} :
    \/ f.className # "" /\ f.className = g.className
    \/ f.fileName # "" /\ f.fileName = g.fileName
C16_Related(a, b) == C16_TimeClose(a, b) \/ C16_SameType(a, b) \/ C16_SharedFrame(a, b)

\* C16: for two distinct error entries A and B, B's line number is in A's
\* related list exactly when their timestamps both parse and are at most
\* 5000 ms apart, or their error types are equal and non-empty, or a frame of
\* each shares a non-empty class name or file name; the relation is symmetric.
C16_RelatedIffTimeTypeOrFrame ==
  Correlated =>
    \A a, b \in 1..Len(corrErrors) :
      a # b =>
        LET listed(x, y) ==
              \E k \in 1..Len(corrErrors[x].metadata.relatedErrors) :
                corrErrors[x].metadata.relatedErrors[k] = corrErrors[y].lineNumber
        IN /\ listed(a, b) <=> C16_Related(corrErrors[a], corrErrors[b])
           /\ listed(a, b) <=> listed(b, a)

\* C16's case: two entries 2000 ms apart, of different types and with no
\* frame in common, each listed by the other.
C16_Witness ==
  /\ Correlated
  /\ Len(corrErrors) = 2
  /\ corrErrors[1].timestamp = "2024-01-01 10:00:00.000"
  /\ corrErrors[2].timestamp = "2024-01-01 10:00:02.000"
  /\ ~C16_SameType(corrErrors[1], corrErrors[2])
  /\ ~C16_SharedFrame(corrErrors[1], corrErrors[2])
  /\ corrErrors[1].metadata.relatedErrors = <<corrErrors[2].lineNumber>>
  /\ corrErrors[2].metadata.relatedErrors = <<corrErrors[1].lineNumber>>

\* The keywords of the two message rules.
C17_CriticalWords == {"fatal", "critical", "outofmemory"}
C17_HighWords == {"nullpointer", "segmentation", "stackoverflow"}

\* C17: every error entry has exactly one of the four severities, by first
\* match: critical when the message holds a critical keyword; else high when
\* it holds a high keyword or the entry has more than 10 stack frames; else
\* medium when the stack trace is not empty; else low.
C17_SeverityByPrecedence ==
  Correlated =>
    \A i \in 1..Len(corrErrors) :
      LET e        == corrErrors[i]
          severity == e.metadata.severity
          critical == \E w \in C17_CriticalWords : MessageIncludes(e.message, w)
          high     == \/ \E w \in C17_HighWords : MessageIncludes(e.message, w)
                      \/ Len(e.stackTrace) > 10
      IN /\ severity \in {"low", "medium", "high", "critical"}
         /\ severity = "critical" <=> critical
         /\ severity = "high" <=> (~critical /\ high)
         /\ severity = "medium" <=> (~critical /\ ~high /\ Len(e.stackTrace) > 0)
         /\ severity = "low" <=> (~critical /\ ~high /\ Len(e.stackTrace) = 0)

\* C17's case: a message that holds both 'critical' and 'nullpointer' is
\* critical, next to an entry that is high by its 11 stack frames alone.
C17_Witness ==
  /\ Correlated
  /\ Len(corrErrors) = 2
  /\ MessageIncludes(corrErrors[1].message, "critical")
  /\ MessageIncludes(corrErrors[1].message, "nullpointer")
  /\ corrErrors[1].metadata.severity = "critical"
  /\ corrErrors[2].message = "request failed"
  /\ Len(corrErrors[2].stackTrace) = 11
  /\ corrErrors[2].metadata.severity = "high"

\* -------------------------------------------------------- LogFormatDetector

\* Longest list of freely drawn lines detectFormat is called on, and longest
\* tail that follows a list of sampleLimit lines.
MaxSample == 3
MaxTail == 1

\* The lines the lists are made of: one or two of each dialect, a line of
\* plain text and a blank line.
SampleLines == {"jsonOk", "spring", "log4jLine", "access", "commonOnly", "info", "blank"}
ParsedLines == SampleLines \cup SpringLines \cup Log4jLines \cup {"error", "frame"}

ShortSamples == UNION {[1..n -> SampleLines] : n \in 0..MaxSample}
\* sampleLimit lines of plain text but the last, which is any line.
FullSamples == {[i \in 1..sampleLimit |-> IF i = sampleLimit THEN x ELSE "info"] :
                  x \in SampleLines}
Tails == UNION {[1..n -> SampleLines] : n \in 0..MaxTail}

\* Two lists that agree on their first min(length, sampleLimit) lines.
SamplePairs ==
  {<<lines, lines>> : lines \in ShortSamples}
    \cup {<<head \o tailA, head \o tailB>> :
            head \in FullSamples, tailA \in Tails, tailB \in Tails}

InitDetector ==
  /\ ParserIdle
  /\ MatcherIdle
  /\ ReaderIdle
  /\ CorrelatorIdle
  /\ samples \in SamplePairs
  /\ detected = <<"none", "none">>
  /\ parsed = NoParsed
  /\ LocatorIdle
  /\ RootIdle

\* A call of detectFormat on one of the two lists.
DetectFormat ==
  /\ \E i \in 1..2 : detected' = [detected EXCEPT ![i] = detectFormat(samples[i])]
  /\ UNCHANGED <<samples, parsed>>
  /\ UNCHANGED <<parserVars, matcherVars, readerVars, correlatorVars>>
  /\ UNCHANGED locatorVars
  /\ UNCHANGED rootVars

NextDetector == DetectFormat

SpecDetector == InitDetector /\ [][NextDetector]_vars

\* Largest line number parseLogEntry is called with.
MaxLineNumber == 3

InitEntry ==
  /\ ParserIdle
  /\ MatcherIdle
  /\ ReaderIdle
  /\ CorrelatorIdle
  /\ DetectorIdle
  /\ LocatorIdle
  /\ RootIdle

\* A call of parseLogEntry on a line, with its number and a format.
ParseLogEntry ==
  /\ \E line \in ParsedLines, n \in 1..MaxLineNumber,
        fmt \in {FormatOrder[k] : k \in 1..Len(FormatOrder)} :
       parsed' = [line |-> line, format |-> fmt, called |-> TRUE,
                  entry |-> parseLogEntry(line, n, fmt)]
  /\ UNCHANGED <<samples, detected>>
  /\ UNCHANGED <<parserVars, matcherVars, readerVars, correlatorVars>>
  /\ UNCHANGED locatorVars
  /\ UNCHANGED rootVars

NextEntry == ParseLogEntry

SpecEntry == InitEntry /\ [][NextEntry]_vars

\* ------------------------------------------------------- detector: claims

\* The dialects in their fixed order, and the number of sampled lines of a
\* list that the pattern of a dialect matches.
C18_Dialects == <<"json", "spring", "log4j", "common", "combined">>
C18_Count(lines, d) ==
  Cardinality({i \in 1..Len(lines) :
                 i <= 50 /\ ~IsBlank(lines[i]) /\ MatchesFormat(lines[i], C18_Dialects[d])})

\* C18: detectFormat returns the dialect with the largest count of matched
\* sampled lines, the earliest in the order JSON, Spring, Log4j, Common,
\* Combined among those that share it, and plain text when no dialect matched.
C18_HighestCountEarliestWins ==
  \A i \in 1..2 :
    detected[i] # "none" =>
      IF \A d \in 1..5 : C18_Count(samples[i], d) = 0
        THEN detected[i] = "text"
        ELSE \E r \in 1..5 :
               /\ detected[i] = C18_Dialects[r]
               /\ \A d \in 1..5 : C18_Count(samples[i], d) <= C18_Count(samples[i], r)
               /\ \A d \in 1..(r - 1) : C18_Count(samples[i], d) < C18_Count(samples[i], r)

\* C18's case: a Log4j line then a Spring line, one match each: Spring, the
\* earlier in the order, is returned.
C18_Witness ==
  /\ samples[1] = <<"log4jLine", "spring">>
  /\ detected[1] = "spring"

\* C19: the dialect returned is that of the first min(length, 50) lines: two
\* lists that agree on those lines get the same dialect, whatever follows the
\* 50th line and in whatever order the calls are made.
C19_FirstLinesDecide ==
  /\ \A i \in 1..2 :
       detected[i] # "none" =>
         detected[i] = detectFormat(SubSeq(samples[i], 1, Min(Len(samples[i]), 50)))
  /\ (detected[1] # "none" /\ detected[2] # "none") => detected[1] = detected[2]

\* C19's case: two lists of 51 lines that differ in the 51st, which, were it
\* counted, would make the dialects differ; both called on.
C19_Witness ==
  /\ Len(samples[1]) = 51
  /\ Len(samples[2]) = 51
  /\ samples[1][50] = "spring"
  /\ samples[1][51] = "jsonOk"
  /\ samples[2][51] = "log4jLine"
  /\ detected = <<"spring", "spring">>

\* The level written in the level field of a Spring or Log4j line, and the
\* text after its logger prefix.
C20_LevelField(line) == "ERROR"
C20_Message(line) ==
  CASE line \in {"spring", "log4jLine"} -> "boom"
    [] line = "springInfo"              -> "cannot read info file"
    [] line = "log4jDebug"              -> "debug mode failed"

\* C20: a Spring or Log4j line parsed in its own format gets the level of its
\* level field and the text after the logger prefix as message, whatever
\* words the message holds.
C20_LevelFromLevelField ==
  (/\ parsed.called
   /\ \/ parsed.format = "spring" /\ parsed.line \in SpringLines
      \/ parsed.format = "log4j" /\ parsed.line \in Log4jLines)
  => /\ parsed.entry.level = C20_LevelField(parsed.line)
     /\ parsed.entry.message = C20_Message(parsed.line)

\* C21: under the JSON dialect, a line that does not parse as JSON gets the
\* entry (timestamp, level, message) that parseLogEntry gives the same line
\* under the plain-text dialect.
C21_JsonFailureIsPlainText ==
  (parsed.called /\ parsed.format = "json" /\ ~JsonParses(parsed.line))
  => LET asText == parseLogEntry(parsed.line, parsed.entry.lineNumber, "text")
     IN /\ parsed.entry.timestamp = asText.timestamp
        /\ parsed.entry.level = asText.level
        /\ parsed.entry.message = asText.message

\* -------------------------------------------------------------- CodeLocator

\* Calls of initialize or refreshIndex, calls of locateErrorSources, and
\* error entries per call.
MaxIndexings == 2
MaxLocates == 2
MaxLocatorErrors == 2

\* CodeMatcher.findCodeLocations as one call: the loop over the frames, then
\* deduplication, sort, related files and truncation.
findCodeLocations(trace) ==
  LET found == Flatten([i \in 1..Len(trace) |-> findLocationForStackTrace(trace[i])])
      sortedLocations == sortByConfidence(deduplicateLocations(found))
  IN [locations    |-> sliceLocations(sortedLocations),
      relatedFiles |-> collectRelatedFiles(sortedLocations, Len(sortedLocations)),
      indexUsed    |-> projectIndex.used]

\* The messages of the error entries located:
\*   fileInMessage  "Error in Service.java:42"
\*   plain          "request failed"
\* extractStackFromMessage: /(\w+\.java):(\d+)/ gives a frame of the file and
\* line, /\b([A-Z]\w+(?:\.[A-Z]\w+)*)\b/ a frame of the class ("Error").
extractStackFromMessage(message) ==
  IF message = "fileInMessage"
    THEN << [fileName |-> "Service.java", lineNumber |-> 42,
             className |-> "", methodName |-> ""],
            [fileName |-> "", lineNumber |-> -1,
             className |-> "Error", methodName |-> ""] >>
    ELSE <<>>

\* The error entries located: with a stack trace of one frame, with a file
\* named in the message, with neither.
LocatorErrors ==
  { [message |-> "plain",
     stackTrace |-> << [fileName |-> "Service.java", lineNumber |-> 42,
                        className |-> "com.example.Service",
                        methodName |-> "handle"] >>],
    [message |-> "fileInMessage", stackTrace |-> <<>>],
    [message |-> "plain", stackTrace |-> <<>>] }

ErrorsGiven == UNION {[1..n -> LocatorErrors] : n \in 0..MaxLocatorErrors}

\* One turn of locateErrorSources' loop: the result set for one error entry.
locateError(error) ==
  IF Len(error.stackTrace) > 0 THEN findCodeLocations(error.stackTrace)
  ELSE LET syntheticStack == extractStackFromMessage(error.message)
       IN IF Len(syntheticStack) > 0 THEN findCodeLocations(syntheticStack)
          ELSE [locations |-> <<>>, relatedFiles |-> <<>>,
                indexUsed |-> locatorIndex.used]

\* new CodeLocator(): no root, no index, a CodeMatcher without index.
InitLocator ==
  /\ ParserIdle
  /\ ReaderIdle
  /\ CorrelatorIdle
  /\ DetectorIdle
  /\ stackTrace = <<>>
  /\ options \in [maxResults : {0, MaxResultsGiven}, fuzzyMatch : BOOLEAN]
  /\ projectIndex = NoIndex
  /\ mpc = "idle"
  /\ traceIdx = 0
  /\ locations = <<>>
  /\ result = NoResult
  /\ projectRoot = "null"
  /\ locatorIndex = NoIndex
  /\ lastScan = "none"
  /\ indexings = 0
  /\ errorsGiven \in ErrorsGiven
  /\ located = <<>>
  /\ RootIdle

\* The body of initialize(root): the root is set, then scanProject either
\* returns an index, which the locator and its matcher keep, or throws, which
\* is caught and leaves both as they were.
initializeAt(root, scanned, index) ==
  /\ projectRoot' = root
  /\ indexings' = indexings + 1
  /\ IF scanned
       THEN /\ locatorIndex' = index
            /\ projectIndex' = index
            /\ lastScan' = "ok"
       ELSE /\ UNCHANGED <<locatorIndex, projectIndex>>
            /\ lastScan' = "failed"

\* initialize on the root of the project tree.
initialize(scanned) ==
  /\ initializeAt("/p", scanned, scanProject)
  /\ UNCHANGED <<errorsGiven, located>>
  /\ UNCHANGED rootVars
  /\ UNCHANGED <<stackTrace, options, mpc, traceIdx, locations, result>>
  /\ UNCHANGED parserVars
  /\ UNCHANGED readerVars
  /\ UNCHANGED correlatorVars
  /\ UNCHANGED detectorVars

Initialize ==
  /\ indexings < MaxIndexings
  /\ \E scanned \in BOOLEAN : initialize(scanned)

\* refreshIndex: initialize(this.projectRoot) when there is a root.
RefreshIndex ==
  /\ indexings < MaxIndexings
  /\ projectRoot # "null"
  /\ \E scanned \in BOOLEAN : initialize(scanned)

\* locateErrorSources: throws when there is no root, and otherwise returns
\* one result per error entry.
LocateErrorSources ==
  /\ Len(located) < MaxLocates
  /\ located' = Append(located,
       [initialized |-> projectRoot # "null",
        lastScan    |-> lastScan,
        rejected    |-> projectRoot = "null",
        results     |-> IF projectRoot = "null" THEN <<>>
                        ELSE [i \in 1..Len(errorsGiven) |-> locateError(errorsGiven[i])]])
  /\ UNCHANGED <<projectRoot, locatorIndex, lastScan, indexings, errorsGiven>>
  /\ UNCHANGED rootVars
  /\ UNCHANGED matcherVars
  /\ UNCHANGED parserVars
  /\ UNCHANGED readerVars
  /\ UNCHANGED correlatorVars
  /\ UNCHANGED detectorVars

NextLocator == Initialize \/ RefreshIndex \/ LocateErrorSources

SpecLocator == InitLocator /\ [][NextLocator]_vars

\* ------------------------------------- ProjectScanner.findProjectRoot

\* Deepest directory the search starts in: the root has depth 0.
MaxDepth == 3

\* The directories from the file system root down, deepest last.
PathNames == <<"/", "/a", "/a/b", "/a/b/c">>

\* What a directory holds: nothing of note, one of the indicator files
\* (package.json, pom.xml, ...), a file whose name ends in .csproj, a
\* directory named src, or a regular file named src.
DirKinds == {"plain", "marker", "csproj", "srcDir", "srcFile"}

\* The tests of one turn of findProjectRoot's loop on a directory.
isProjectRoot(kind) == kind \in {"marker", "csproj", "srcDir"}

\* The index scanProject builds of a tree without source files.
EmptyIndex == [used |-> TRUE, files |-> <<>>]

\* autoDetectProjectRoot is called; searchPath is the last of dirs.
InitRoot ==
  /\ ParserIdle
  /\ MatcherIdle
  /\ ReaderIdle
  /\ CorrelatorIdle
  /\ DetectorIdle
  /\ LocatorIdle
  /\ dirs \in UNION {[1..n -> DirKinds] : n \in 1..(MaxDepth + 1)}
  /\ currentPath = Len(dirs)
  /\ fpc = "walk"
  /\ detectedRoot = 0
  /\ autoRoot = 0

\* One turn of the loop while (currentPath !== root): return currentPath
\* when it holds an indicator or a src directory, else go to its parent.
FindProjectRootStep ==
  /\ fpc = "walk"
  /\ currentPath # 1
  /\ IF isProjectRoot(dirs[currentPath])
       THEN /\ detectedRoot' = currentPath
            /\ fpc' = "found"
            /\ UNCHANGED currentPath
       ELSE /\ currentPath' = currentPath - 1
            /\ UNCHANGED <<detectedRoot, fpc>>
  /\ UNCHANGED <<dirs, autoRoot>>
  /\ UNCHANGED <<parserVars, matcherVars, readerVars, correlatorVars>>
  /\ UNCHANGED detectorVars
  /\ UNCHANGED locatorVars

\* The loop ends when currentPath is the root: return null.
FindProjectRootEnd ==
  /\ fpc = "walk"
  /\ currentPath = 1
  /\ detectedRoot' = 0
  /\ fpc' = "found"
  /\ UNCHANGED <<dirs, currentPath, autoRoot>>
  /\ UNCHANGED <<parserVars, matcherVars, readerVars, correlatorVars>>
  /\ UNCHANGED detectorVars
  /\ UNCHANGED locatorVars

\* The rest of autoDetectProjectRoot: initialize on the detected root, or on
\* searchPath when none was detected, and return that directory.
AutoDetectProjectRoot ==
  /\ fpc = "found"
  /\ LET root == IF detectedRoot # 0 THEN detectedRoot ELSE Len(dirs)
     IN /\ \E scanned \in BOOLEAN : initializeAt(PathNames[root], scanned, EmptyIndex)
        /\ autoRoot' = root
  /\ fpc' = "done"
  /\ UNCHANGED <<dirs, currentPath, detectedRoot>>
  /\ UNCHANGED <<errorsGiven, located>>
  /\ UNCHANGED <<stackTrace, options, mpc, traceIdx, locations, result>>
  /\ UNCHANGED <<parserVars, readerVars, correlatorVars>>
  /\ UNCHANGED detectorVars

NextRoot == FindProjectRootStep \/ FindProjectRootEnd \/ AutoDetectProjectRoot

SpecRoot == InitRoot /\ [][NextRoot]_vars

\* ------------------------------------------------------- locator: claims

\* The candidate locations of a result, each with its confidence.
C22_Candidates(res) ==
  {[filePath |-> res.locations[k].filePath,
    lineNumber |-> res.locations[k].lineNumber,
    methodName |-> res.locations[k].methodName,
    confidence |-> res.locations[k].confidence] : k \in 1..Len(res.locations)}

\* C22: on the same tree and the same stack frames, the search without an
\* index and the search with the index scanProject builds return the same
\* set of candidate locations with the same confidences.
C22_DirectEqualsIndexed ==
  \A a, b \in 1..Len(located) :
    (/\ ~located[a].rejected /\ located[a].lastScan = "failed"
     /\ ~located[b].rejected /\ located[b].lastScan = "ok")
    => \A i \in 1..Len(errorsGiven) :
         (located[a].results[i].indexUsed = FALSE /\ located[b].results[i].indexUsed = TRUE)
         => C22_Candidates(located[a].results[i]) = C22_Candidates(located[b].results[i])

\* C23: when an index is in use, every returned location, those of the fuzzy
\* strategy included, refers to a file of the index.
C23_LocationsAreIndexedFiles ==
  (Found /\ result.indexUsed) =>
    \A r \in Returned :
      \E k \in 1..Len(projectIndex.files) :
        projectIndex.files[k] = result.locations[r].filePath

\* C25: a call of locateErrorSources is rejected exactly when no initialize
\* call was made before it, otherwise returns one result per error entry,
\* and after a last indexing attempt that failed reports indexUsed false in
\* every result.
C25_FailedIndexingMeansDirectSearch ==
  \A c \in 1..Len(located) :
    /\ located[c].rejected <=> ~located[c].initialized
    /\ ~located[c].rejected => Len(located[c].results) = Len(errorsGiven)
    /\ located[c].lastScan = "failed" =>
         \A i \in 1..Len(located[c].results) : ~located[c].results[i].indexUsed

\* C27: the returned location of a (filePath, lineNumber, methodName) triple
\* carries the highest confidence among the candidates of that triple.
C27_SurvivorHasHighestConfidence ==
  Found =>
    \A r \in Returned : \A c \in 1..Len(locations) :
      LocationKey(locations[c]) = LocationKey(result.locations[r])
      => result.locations[r].confidence >= locations[c].confidence

\* The directories, the starting one and its ancestors up to the root, that
\* hold an indicator file or a src directory.
C24_Matching == {d \in 1..Len(dirs) : isProjectRoot(dirs[d])}

\* C24: findProjectRoot returns the nearest of the starting directory and
\* its ancestors up to the file system root that holds an indicator file or
\* a src directory, null only when none does, and autoDetectProjectRoot then
\* returns the starting directory.
C24_NearestMatchingAncestor ==
  /\ fpc \in {"found", "done"} =>
       /\ C24_Matching = {} => detectedRoot = 0
       /\ C24_Matching # {} =>
            /\ detectedRoot \in C24_Matching
            /\ \A d \in C24_Matching : d <= detectedRoot
  /\ fpc = "done" =>
       autoRoot = IF detectedRoot = 0 THEN Len(dirs) ELSE detectedRoot

\* The index in entries of the entry of an error entry.
C26_IndexOf(errorEntry) ==
  CHOOSE k \in 1..Len(entries) : entries[k].lineNumber = errorEntry.lineNumber

\* The line numbers of the entries within n positions of index k, clipped at
\* the bounds of entries.
C26_Window(k, n) ==
  [j \in 1..(Min(Len(entries), k + n) - Max(1, k - n) + 1) |->
     entries[Max(1, k - n) + j - 1].lineNumber]

\* C26: with the contextLines option set to N, the contextLines of every
\* error entry parseLogFile returns are the entries within N positions of the
\* error line on each side, clipped at the bounds of the entry list.
C26_ContextLinesOptionSetsWindow ==
  (mode = "file" /\ Done /\ parseOptions.contextLines # 0) =>
    \A i \in ErrorIndexes :
      errorEntries[i].contextLines
        = C26_Window(C26_IndexOf(errorEntries[i]), parseOptions.contextLines)

\* C28: parseLogFileStream reports the format parseLogFile reports for the
\* same file, and every entry of its result is the line parsed with that
\* format (or the basic entry pushed when processing the line threw).
C28_StreamFormatIsFileFormat ==
  (mode = "stream" /\ Done) =>
    /\ format = detectFormat(fileLines)
    /\ \A k \in 1..Len(entries) :
         \/ entries[k] = parseLogEntry(entries[k].rawLine, entries[k].lineNumber, format)
         \/ entries[k] = RawEntry(entries[k].rawLine, entries[k].lineNumber)

\* C29: when every sampled non-blank line matches the Combined pattern,
\* detectFormat returns the Combined dialect.
C29_CombinedCanWin ==
  \A i \in 1..2 :
    LET sampled == {k \in 1..Min(Len(samples[i]), 50) : ~IsBlank(samples[i][k])}
    IN (/\ detected[i] # "none"
        /\ sampled # {}
        /\ \A k \in sampled : MatchesFormat(samples[i][k], "combined"))
       => detected[i] = "combined"

\* C30: parseLogFile on a zero-byte file is rejected with the 'log file is
\* empty' error; it does not return a result without entries and with
\* totalLines greater than 0.
C30_EmptyFileIsRejected ==
  (/\ mode = "file"
   /\ pc \in {"done", "failed"}
   /\ path.exists /\ path.isFile /\ path.size = 0
   /\ fileLines = <<"empty">>)
  => /\ pc = "failed"
     /\ rejection = "empty"
     /\ ~(entries = <<>> /\ totalLines > 0)

====
